---- MODULE Spec2Model ----
(***************************************************************************)
(* A model of @bantis/local-cipher: the SecureStorage facade, the          *)
(* EncryptionHelper (v2), KeyRotation and NamespacedStorage, over an       *)
(* abstract localStorage.                                                  *)
(*                                                                         *)
(* Cryptography is idealised: a SHA-256 digest is an injective, opaque     *)
(* function of its input, an AES-GCM record decrypts under exactly the key *)
(* that produced it, and a key is identified by the salt it was derived    *)
(* from (the fingerprint is fixed for one environment).  The random nonce  *)
(* of a record is not represented.                                         *)
(*                                                                         *)
(* Every async handler is cut at its awaits: one action per stretch of     *)
(* code that runs without suspending.  A task slot holds one invocation,   *)
(* its position (pc), its locals, the events it emitted and its result.    *)
(***************************************************************************)
EXTENDS Integers, Sequences, FiniteSets, TLC

VARIABLES
    localStorage,   \* the Backing Store: a function from stored names to stored strings
    key,            \* EncryptionHelper.key: 0 for null, else the salt the cached key was derived from
    keyVersion,     \* EncryptionHelper.keyVersion
    saltGen,        \* how many salts crypto.getRandomValues has produced (salts are fresh)
    now,            \* Date.now()
    supported,      \* EncryptionHelper.isSupported()
    tasks,          \* the invocations in flight, by task slot
    hist,           \* the operations completed before the ones in the slots, newest first
    instance,       \* SecureStorage.instance: the singleton (its config and its cleanup timer), or NoInstance
    emitter         \* an EventEmitter: its listener sets, the emits that are running, what they called

vars == <<localStorage, key, keyVersion, saltGen, now, supported, tasks, hist, instance, emitter>>

----------------------------------------------------------------------------
(* Bounds of the model *)

MaxEmits == 3

MaxTime == 3        \* Date.now() ranges over 1..MaxTime
MaxSalts == 3       \* salts the random generator hands out
HistLen == 1        \* completed operations remembered
LongHist == 2       \* the same, where a claim speaks of three calls in a row

AllTasks == {1, 2}

----------------------------------------------------------------------------
(* Program constants *)

STORAGE_VERSION == 2
DEFAULT_CONFIG ==
    [compression |-> TRUE, compressionThreshold |-> 1024, autoCleanup |-> TRUE,
     iterations |-> 100000]
SALT_STORAGE_KEY == "__app_salt"
KEY_VERSION_KEY == "__key_version"
ENC_PREFIX == "__enc_"

----------------------------------------------------------------------------
(* Strings *)

startsWith(s, p) == Len(s) >= Len(p) /\ SubSeq(s, 1, Len(p)) = p

includes(s, p) ==
    \E i \in 1..(Len(s) - Len(p) + 1) : SubSeq(s, i, i + Len(p) - 1) = p

\* String.prototype.replace(p, ''): the first occurrence of p is removed
replaceFirst(s, p) ==
    IF ~includes(s, p) THEN s
    ELSE LET i == CHOOSE j \in 1..(Len(s) - Len(p) + 1) :
                    /\ SubSeq(s, j, j + Len(p) - 1) = p
                    /\ \A h \in 1..(j - 1) : SubSeq(s, h, h + Len(p) - 1) # p
         IN  SubSeq(s, 1, i - 1) \o SubSeq(s, i + Len(p), Len(s))

(* A stored name.  enc = 0: the string s itself.  enc = d > 0: the name      *)
(* "__enc_" + hex(sha256(n + baseKey))[0:16] for the name n = [enc |-> d-1]. *)
PlainName(s) == [enc |-> 0, s |-> s]

encryptKey(n) == [enc |-> n.enc + 1, s |-> n.s]

\* key.startsWith('__enc_')
IsEncName(n) == n.enc > 0 \/ startsWith(n.s, ENC_PREFIX)

\* key.includes(prefix): a hex digest holds no letter n or s, so it never holds a namespace prefix
nameIncludes(n, p) == n.enc = 0 /\ includes(n.s, p)

\* the order of localStorage.key(i): by obfuscation depth, then by the string
NameBefore(a, b) ==
    \/ a.enc < b.enc
    \/ a.enc = b.enc /\ Len(a.s) < Len(b.s)
    \/ a.enc = b.enc /\ Len(a.s) = Len(b.s) /\ a.s # b.s
       /\ a.s = CHOOSE m \in {a.s, b.s} : TRUE

----------------------------------------------------------------------------
(* Strings that are stored, encrypted, parsed *)

None == <<>>
Some(n) == <<n>>

Null == [null |-> TRUE]
Void == [void |-> TRUE]
Throw == [throw |-> TRUE]
Bool(b) == [bool |-> b]
Num(n) == [num |-> n]

Text(s) == [text |-> s]
Json(obj) == [json |-> obj]
\* arrayBufferToBase64(compress(value))
Gz(v) == [gz |-> v]
\* arrayBufferToBase64(iv + AES-GCM(key derived from salt, plaintext))
Cipher(salt, plaintext) == [ct |-> [salt |-> salt, pt |-> plaintext]]
\* arrayBufferToBase64(salt)
SaltStr(salt) == [salt |-> salt]
\* keyVersion.toString()
VersionStr(n) == [version |-> n]
\* the hex digest of calculateChecksum
Sha(v) == [sha |-> v]

Kind(v) == CHOOSE f \in DOMAIN v : TRUE

\* !value for a string: the empty string is falsy
IsEmptyStr(v) == v = Text("")

x1024 ==
    LET d(s) == s \o s
    IN  d(d(d(d(d(d(d(d(d(d("x"))))))))))

\* the length of JSON.stringify of a StoredValue, without its value
JsonOverhead == 174

\* value.length, for a text and for the serialisation of a wrapper around one
RECURSIVE StrLen(_)
StrLen(v) ==
    IF Kind(v) = "text" THEN Len(v.text) ELSE JsonOverhead + StrLen(v.json.value)

shouldCompress(v, threshold) == StrLen(v) >= threshold

\* JSON.parse succeeds on the serialisation of an object and throws on other text
ParsesAsJson(v) == Kind(v) = "json"

NoChecksum == [nochecksum |-> TRUE]

StoredValue(value, t, compressed, expiresAt, checksum) ==
    [value |-> value, createdAt |-> t, modifiedAt |-> t, version |-> STORAGE_VERSION,
     compressed |-> compressed, expiresAt |-> expiresAt, checksum |-> checksum]

\* storedValue.expiresAt && storedValue.expiresAt < Date.now()
IsExpired(sv, t) ==
    /\ sv.expiresAt # None
    /\ sv.expiresAt[1] # 0
    /\ sv.expiresAt[1] < t

----------------------------------------------------------------------------
(* localStorage *)

HasItem(ls, n) == n \in DOMAIN ls

\* localStorage.getItem: Null when absent
GetItem(ls, n) == IF n \in DOMAIN ls THEN ls[n] ELSE Null

\* !localStorage.getItem(n): absent, or the empty string
Falsy(v) == v = Null \/ IsEmptyStr(v)

Put(ls, n, v) == [m \in DOMAIN ls \cup {n} |-> IF m = n THEN v ELSE ls[m]]

Remove(ls, n) == [m \in DOMAIN ls \ {n} |-> ls[m]]

RemoveAll(ls, ns) == [m \in DOMAIN ls \ ns |-> ls[m]]

SaltName == PlainName(SALT_STORAGE_KEY)
VersionName == PlainName(KEY_VERSION_KEY)

RECURSIVE SortNames(_)
SortNames(S) ==
    IF S = {} THEN <<>>
    ELSE LET m == CHOOSE a \in S : \A b \in S \ {a} : NameBefore(a, b)
         IN  <<m>> \o SortNames(S \ {m})

\* the names localStorage.key(0), key(1), ... in order
KeySeq(ls) == SortNames(DOMAIN ls)

\* the scan "for i < localStorage.length: if key.startsWith('__enc_') push"
EncNames(ls) == SelectSeq(KeySeq(ls), IsEncName)

----------------------------------------------------------------------------
(* Task slots *)

NoOpts == [expiresIn |-> None, expiresAt |-> None]
NoKey == [nokey |-> TRUE]
Nil == [nil |-> TRUE]

IdleTask ==
    [op |-> "none", pc |-> "idle", at |-> 0, ver |-> 0,
     key |-> "", value |-> Nil, opts |-> NoOpts, fault |-> FALSE, sup |-> TRUE,
     ns |-> "", ckey |-> "", cval |-> Nil, cwx |-> FALSE, ret |-> "",
     mode |-> "", cret |-> "", cerr |-> "", iret |-> "", buf |-> Nil, aux |-> Nil,
     salt |-> 0, list |-> <<>>, idx |-> 0, count |-> 0, cur |-> NoKey, data |-> <<>>,
     result |-> Nil, events |-> <<>>]

\* what is kept of a completed operation
Summary(T) ==
    [op |-> T.op, at |-> T.at, ver |-> T.ver, ns |-> T.ns, key |-> T.key, value |-> T.value, opts |-> T.opts,
     fault |-> T.fault, sup |-> T.sup, result |-> T.result]

CanStart(t) == tasks[t].pc \in {"idle", "done"}

Quiet == \A t \in AllTasks : tasks[t].pc \in {"idle", "done"}

\* hist is a window of fixed width over the completed operations
Window(w) == [i \in 1..w |-> Summary(IdleTask)]

PushHist(t) ==
    hist' = IF tasks[t].pc = "done"
            THEN SubSeq(<<Summary(tasks[t])>> \o hist, 1, Len(hist))
            ELSE hist

Begin(op, k, v, opts, fault) ==
    [IdleTask EXCEPT !.op = op, !.pc = "run", !.at = now, !.ver = keyVersion,
                     !.key = k, !.value = v, !.opts = opts,
                     !.fault = fault, !.sup = supported]

\* the effect of one stretch of code: the task, localStorage, the salts drawn
Eff(T, ls, sg) == [T |-> T, ls |-> ls, sg |-> sg]

Commit(t, E) ==
    /\ E.sg <= MaxSalts
    /\ tasks' = [tasks EXCEPT ![t] = E.T]
    /\ localStorage' = E.ls
    /\ saltGen' = E.sg
    /\ UNCHANGED <<instance, emitter>>

\* eventEmitter.emit(type, {key})
Emit(E, type, k) ==
    [E EXCEPT !.T.events = Append(@, [type |-> type, key |-> k])]

\* the promise of the top-level operation settles
Finish(E, res) ==
    [E EXCEPT !.T = [IdleTask EXCEPT
        !.op = E.T.op, !.pc = "done", !.at = E.T.at, !.ver = E.T.ver,
        !.ns = E.T.ns, !.key = E.T.key, !.value = E.T.value,
        !.opts = E.T.opts, !.fault = E.T.fault, !.sup = E.T.sup,
        !.events = E.T.events,
        !.result = IF E.T.op \in {"hasItem", "ns.hasItem"} THEN Bool(res # Null) ELSE res]]

\* a facade method called with await returns to its caller
Return(E) ==
    IF E.T.ret = "" THEN Finish(E, Void)
    ELSE [E EXCEPT !.T.pc = E.T.ret, !.T.ret = ""]

----------------------------------------------------------------------------
(* EncryptionHelper: encrypt, decrypt, initialize, initializeFromStored *)

StoredSalt(ls) == IF HasItem(ls, SaltName) THEN ls[SaltName].salt ELSE 0

\* crypto.subtle.encrypt / decrypt under the key derived from salt k
Subtle(E, k) ==
    IF E.T.mode = "encrypt"
    THEN IF E.T.fault
         THEN [E EXCEPT !.T.pc = E.T.cerr]
         ELSE [E EXCEPT !.T.pc = E.T.cret, !.T.buf = Cipher(k, E.T.buf)]
    ELSE IF Kind(E.T.buf) = "ct" /\ E.T.buf.ct.salt = k
         THEN [E EXCEPT !.T.pc = E.T.cret, !.T.buf = E.T.buf.ct.pt]
         ELSE [E EXCEPT !.T.pc = E.T.cerr]

\* the call of encrypt(text) or decrypt(text), up to its first await
Crypt(E, mode, text, cret, cerr) ==
    LET E1 == [E EXCEPT !.T.mode = mode, !.T.buf = text, !.T.cret = cret, !.T.cerr = cerr,
                        !.T.iret = "crypt_go"]
    IN  IF key # 0 THEN Subtle(E1, key)
        ELSE IF StoredSalt(E.ls) = 0
             THEN [E1 EXCEPT !.T.pc = "init_new", !.T.salt = E.sg + 1, !.sg = E.sg + 1]
             ELSE [E1 EXCEPT !.T.pc = "init_stored", !.T.salt = StoredSalt(E.ls)]

initialize_staleVersion(t) ==
    /\ tasks[t].pc = "init_new"
    /\ key' = tasks[t].salt
    /\ keyVersion' = keyVersion + 1
    /\ localStorage' = Put(Put(localStorage, VersionName, VersionStr(keyVersion)),
                           SaltName, SaltStr(tasks[t].salt))
    /\ tasks' = [tasks EXCEPT ![t].pc = tasks[t].iret]
    /\ UNCHANGED <<saltGen, now, supported, hist, instance, emitter>>

\* initialize(), from the assignment of this.key on
initialize(t) ==
    /\ tasks[t].pc = "init_new"
    /\ key' = tasks[t].salt
    /\ keyVersion' = keyVersion + 1
    /\ localStorage' = Put(Put(localStorage, VersionName, VersionStr(keyVersion + 1)),
                           SaltName, SaltStr(tasks[t].salt))
    /\ tasks' = [tasks EXCEPT ![t].pc = tasks[t].iret]
    /\ UNCHANGED <<saltGen, now, supported, hist, instance, emitter>>

\* an initializeFromStored that derives from a salt of its own
initializeFromStored_otherSalt(t) ==
    /\ tasks[t].pc = "init_stored"
    /\ key' = tasks[t].salt + 1
    /\ tasks' = [tasks EXCEPT ![t].pc = "crypt_go"]
    /\ UNCHANGED <<localStorage, keyVersion, saltGen, now, supported, hist, instance, emitter>>

\* initializeFromStored(), from the assignment of this.key on
initializeFromStored(t) ==
    /\ tasks[t].pc = "init_stored"
    /\ key' = tasks[t].salt
    /\ tasks' = [tasks EXCEPT ![t].pc = "crypt_go"]
    /\ UNCHANGED <<localStorage, keyVersion, saltGen, now, supported, hist, instance, emitter>>

\* encrypt / decrypt after the await of initializeFromStored()
cryptResume(t) ==
    /\ tasks[t].pc = "crypt_go"
    /\ LET E == Eff(tasks[t], localStorage, saltGen)
       IN  Commit(t, IF key = 0 THEN [E EXCEPT !.T.pc = E.T.cerr] ELSE Subtle(E, key))
    /\ UNCHANGED <<key, keyVersion, now, supported, hist>>

----------------------------------------------------------------------------
(* SecureStorage.setItem and setItemWithExpiry *)

\* the expiration timestamp of setItemWithExpiry
ExpiresAt(opts) ==
    IF opts.expiresIn # None /\ opts.expiresIn[1] # 0
    THEN Some(now + opts.expiresIn[1])
    ELSE opts.expiresAt

\* the StoredValue wrapper with its checksum, serialised
Wrap(E, processed, compressed) ==
    LET sv == StoredValue(processed, now, compressed,
                          IF E.T.cwx THEN ExpiresAt(E.T.opts) ELSE None,
                          Sha(processed))
    IN  [E EXCEPT !.T.pc = "set_enc", !.T.buf = Json(sv)]

\* a setItem whose fallback writes under the obfuscated name
SetItemEnter_obfuscated(E, k, v, wx, ret) ==
    LET E1 == [E EXCEPT !.T.ckey = k, !.T.cval = v, !.T.cwx = wx, !.T.ret = ret]
    IN  IF ~supported
        THEN Return([E1 EXCEPT !.ls = Put(E.ls, encryptKey(PlainName(k)), v)])
        ELSE IF DEFAULT_CONFIG.compression
                /\ shouldCompress(v, DEFAULT_CONFIG.compressionThreshold)
             THEN [E1 EXCEPT !.T.pc = "set_wrap"]
             ELSE Wrap(E1, v, FALSE)

\* setItem(k, v) or setItemWithExpiry(k, v, opts), up to its first await
SetItemEnter(E, k, v, wx, ret) ==
    LET E1 == [E EXCEPT !.T.ckey = k, !.T.cval = v, !.T.cwx = wx, !.T.ret = ret]
    IN  IF ~supported
        THEN Return([E1 EXCEPT !.ls = Put(E.ls, PlainName(k), v)])
        ELSE IF DEFAULT_CONFIG.compression
                /\ shouldCompress(v, DEFAULT_CONFIG.compressionThreshold)
             THEN [E1 EXCEPT !.T.pc = "set_wrap"]
             ELSE Wrap(E1, v, FALSE)

setItem_compressed(t) ==
    /\ tasks[t].pc = "set_wrap"
    /\ LET E == Eff(tasks[t], localStorage, saltGen)
       IN  Commit(t, Wrap(Emit(E, "compressed", PlainName(E.T.ckey)), Gz(E.T.cval), TRUE))
    /\ UNCHANGED <<key, keyVersion, now, supported, hist>>

setItem_encrypt(t) ==
    /\ tasks[t].pc = "set_enc"
    /\ LET E == Eff(tasks[t], localStorage, saltGen)
       IN  Commit(t, Crypt(E, "encrypt", E.T.buf, "set_store", "set_catch"))
    /\ UNCHANGED <<key, keyVersion, now, supported, hist>>

setItem_store(t) ==
    /\ tasks[t].pc = "set_store"
    /\ LET E == Eff(tasks[t], localStorage, saltGen)
           n == encryptKey(PlainName(E.T.ckey))
       IN  Commit(t, Return(Emit([E EXCEPT !.ls = Put(E.ls, n, E.T.buf)],
                                 "encrypted", PlainName(E.T.ckey))))
    /\ UNCHANGED <<key, keyVersion, now, supported, hist>>

\* the catch of setItem writes the plain value; the catch of setItemWithExpiry rethrows
setItem_catch(t) ==
    /\ tasks[t].pc = "set_catch"
    /\ LET E == Emit(Eff(tasks[t], localStorage, saltGen), "error", PlainName(tasks[t].ckey))
       IN  Commit(t, IF E.T.cwx
                     THEN Finish(E, Throw)
                     ELSE Return([E EXCEPT !.ls = Put(E.ls, PlainName(E.T.ckey), E.T.cval)]))
    /\ UNCHANGED <<key, keyVersion, now, supported, hist>>

setItem(t, K, V, F) ==
    \E k \in K, v \in V, f \in F :
        /\ CanStart(t)
        /\ Commit(t, SetItemEnter(Eff(Begin("setItem", k, v, NoOpts, f), localStorage, saltGen),
                                  k, v, FALSE, ""))
        /\ PushHist(t)
        /\ UNCHANGED <<key, keyVersion, now, supported>>

setItemWithExpiry(t, K, V, O, F) ==
    \E k \in K, v \in V, o \in O, f \in F :
        /\ CanStart(t)
        /\ Commit(t, SetItemEnter(Eff(Begin("setItemWithExpiry", k, v, o, f), localStorage, saltGen),
                                  k, v, TRUE, ""))
        /\ PushHist(t)
        /\ UNCHANGED <<key, keyVersion, now, supported>>

----------------------------------------------------------------------------
(* SecureStorage.removeItem *)

RemoveItemEnter(E, k, ret) ==
    LET E1 == [E EXCEPT !.T.ckey = k, !.T.ret = ret]
    IN  IF ~supported
        THEN Return([E1 EXCEPT !.ls = Remove(E.ls, PlainName(k))])
        ELSE [E1 EXCEPT !.T.pc = "rm_do"]

\* a removeItem that forgets the plain entry
removeItem_keepsPlain(t) ==
    /\ tasks[t].pc = "rm_do"
    /\ LET E == Eff(tasks[t], localStorage, saltGen)
           k == PlainName(E.T.ckey)
       IN  Commit(t, Return(Emit([E EXCEPT !.ls = Remove(E.ls, encryptKey(k))], "deleted", k)))
    /\ UNCHANGED <<key, keyVersion, now, supported, hist>>

removeItem_remove(t) ==
    /\ tasks[t].pc = "rm_do"
    /\ LET E == Eff(tasks[t], localStorage, saltGen)
           k == PlainName(E.T.ckey)
       IN  Commit(t, Return(Emit([E EXCEPT !.ls = Remove(Remove(E.ls, encryptKey(k)), k)],
                                 "deleted", k)))
    /\ UNCHANGED <<key, keyVersion, now, supported, hist>>

removeItem(t, K) ==
    \E k \in K :
        /\ CanStart(t)
        /\ Commit(t, RemoveItemEnter(Eff(Begin("removeItem", k, Nil, NoOpts, FALSE),
                                         localStorage, saltGen), k, ""))
        /\ PushHist(t)
        /\ UNCHANGED <<key, keyVersion, now, supported>>

----------------------------------------------------------------------------
(* SecureStorage.getItem and hasItem *)

\* the code of getItem after a successful decrypt
GetItemParsed(E) ==
    LET decrypted == E.T.buf
        k == PlainName(E.T.ckey)
    IN  IF ~ParsesAsJson(decrypted)
           \/ IsEmptyStr(decrypted.json.value) \/ decrypted.json.version = 0
        THEN \* v1 format: auto-migrate
             SetItemEnter([E EXCEPT !.T.aux = decrypted], E.T.ckey, decrypted, FALSE,
                          "get_migrated")
        ELSE LET sv == decrypted.json
             IN  IF IsExpired(sv, now)
                 THEN RemoveItemEnter(E, E.T.ckey, "get_expired")
                 ELSE LET E1 == IF sv.checksum # NoChecksum /\ sv.checksum # Sha(sv.value)
                                THEN Emit(E, "error", k) ELSE E
                      IN  IF sv.compressed
                          THEN IF Kind(sv.value) = "gz"
                               THEN Finish(Emit(Emit(E1, "decompressed", k), "decrypted", k),
                                           sv.value.gz)
                               ELSE [E1 EXCEPT !.T.pc = "get_catch"]
                          ELSE Finish(Emit(E1, "decrypted", k), sv.value)

GetItemEnter(E, k) ==
    LET E1 == [E EXCEPT !.T.ckey = k]
    IN  IF ~supported
        THEN Finish(E1, GetItem(E.ls, PlainName(k)))
        ELSE [E1 EXCEPT !.T.pc = "get_read"]

getItem_read(t) ==
    /\ tasks[t].pc = "get_read"
    /\ LET E == Eff(tasks[t], localStorage, saltGen)
           k == PlainName(E.T.ckey)
           first == GetItem(E.ls, encryptKey(k))
           encryptedValue == IF Falsy(first) THEN GetItem(E.ls, k) ELSE first
       IN  Commit(t, IF Falsy(encryptedValue)
                     THEN Finish(E, Null)
                     ELSE Crypt(E, "decrypt", encryptedValue, "get_parsed", "get_catch"))
    /\ UNCHANGED <<key, keyVersion, now, supported, hist>>

getItem_parsed(t) ==
    /\ tasks[t].pc = "get_parsed"
    /\ Commit(t, GetItemParsed(Eff(tasks[t], localStorage, saltGen)))
    /\ UNCHANGED <<key, keyVersion, now, supported, hist>>

getItem_migrated(t) ==
    /\ tasks[t].pc = "get_migrated"
    /\ LET E == Eff(tasks[t], localStorage, saltGen)
       IN  Commit(t, Finish(E, E.T.aux))
    /\ UNCHANGED <<key, keyVersion, now, supported, hist>>

getItem_expired(t) ==
    /\ tasks[t].pc = "get_expired"
    /\ LET E == Eff(tasks[t], localStorage, saltGen)
       IN  Commit(t, Finish(Emit(E, "expired", PlainName(E.T.ckey)), Null))
    /\ UNCHANGED <<key, keyVersion, now, supported, hist>>

\* a getItem whose catch gives up without the plain entry
getItem_catch_null(t) ==
    /\ tasks[t].pc = "get_catch"
    /\ LET E == Eff(tasks[t], localStorage, saltGen)
           k == PlainName(E.T.ckey)
       IN  Commit(t, Finish(Emit(E, "error", k), Null))
    /\ UNCHANGED <<key, keyVersion, now, supported, hist>>

getItem_catch(t) ==
    /\ tasks[t].pc = "get_catch"
    /\ LET E == Eff(tasks[t], localStorage, saltGen)
           k == PlainName(E.T.ckey)
       IN  Commit(t, Finish(Emit(E, "error", k), GetItem(E.ls, k)))
    /\ UNCHANGED <<key, keyVersion, now, supported, hist>>

getItem(t, K) ==
    \E k \in K :
        /\ CanStart(t)
        /\ Commit(t, GetItemEnter(Eff(Begin("getItem", k, Nil, NoOpts, FALSE),
                                      localStorage, saltGen), k))
        /\ PushHist(t)
        /\ UNCHANGED <<key, keyVersion, now, supported>>

hasItem(t, K) ==
    \E k \in K :
        /\ CanStart(t)
        /\ Commit(t, GetItemEnter(Eff(Begin("hasItem", k, Nil, NoOpts, FALSE),
                                      localStorage, saltGen), k))
        /\ PushHist(t)
        /\ UNCHANGED <<key, keyVersion, now, supported>>

----------------------------------------------------------------------------
(* SecureStorage.clear and EncryptionHelper.clearEncryptedData *)

\* a clear that empties localStorage
clearAll(ls) == RemoveAll(ls, DOMAIN ls)

\* what clearEncryptedData leaves in localStorage
clearEncryptedData(ls) ==
    RemoveAll(ls, {n \in DOMAIN ls : IsEncName(n)} \cup {SaltName})

clear(t) ==
    /\ CanStart(t)
    /\ LET E == Eff(Begin("clear", "", Nil, NoOpts, FALSE),
                    clearEncryptedData(localStorage), saltGen)
       IN  Commit(t, Finish(Emit(E, "cleared", NoKey), Void))
    /\ key' = 0
    /\ PushHist(t)
    /\ UNCHANGED <<keyVersion, now, supported>>

----------------------------------------------------------------------------
(* SecureStorage.cleanExpired *)

\* the loop over keysToCheck, up to the next await
RECURSIVE CleanLoop(_)
CleanLoop(E) ==
    IF E.T.idx > Len(E.T.list)
    THEN Finish(E, Num(E.T.count))
    ELSE LET encryptedValue == GetItem(E.ls, E.T.list[E.T.idx])
         IN  IF Falsy(encryptedValue)
             THEN CleanLoop([E EXCEPT !.T.idx = @ + 1])
             ELSE Crypt(E, "decrypt", encryptedValue, "ce_check", "ce_err")

cleanExpired(t) ==
    /\ CanStart(t)
    /\ LET T == [Begin("cleanExpired", "", Nil, NoOpts, FALSE) EXCEPT
                    !.list = EncNames(localStorage), !.idx = 1]
       IN  Commit(t, CleanLoop(Eff(T, localStorage, saltGen)))
    /\ PushHist(t)
    /\ UNCHANGED <<key, keyVersion, now, supported>>

\* a cleanup that deletes every entry it can decrypt
cleanExpired_deleteAll(t) ==
    /\ tasks[t].pc = "ce_check"
    /\ LET E == Eff(tasks[t], localStorage, saltGen)
           encryptedKey == E.T.list[E.T.idx]
           E1 == Emit([E EXCEPT !.ls = Remove(E.ls, encryptedKey), !.T.count = @ + 1],
                      "expired", encryptedKey)
       IN  Commit(t, CleanLoop([E1 EXCEPT !.T.idx = @ + 1]))
    /\ UNCHANGED <<key, keyVersion, now, supported, hist>>

cleanExpired_check(t) ==
    /\ tasks[t].pc = "ce_check"
    /\ LET E == Eff(tasks[t], localStorage, saltGen)
           encryptedKey == E.T.list[E.T.idx]
           E1 == IF ParsesAsJson(E.T.buf) /\ IsExpired(E.T.buf.json, now)
                 THEN Emit([E EXCEPT !.ls = Remove(E.ls, encryptedKey), !.T.count = @ + 1],
                           "expired", encryptedKey)
                 ELSE E
       IN  Commit(t, CleanLoop([E1 EXCEPT !.T.idx = @ + 1]))
    /\ UNCHANGED <<key, keyVersion, now, supported, hist>>

cleanExpired_error(t) ==
    /\ tasks[t].pc = "ce_err"
    /\ LET E == Eff(tasks[t], localStorage, saltGen)
       IN  Commit(t, CleanLoop([E EXCEPT !.T.idx = @ + 1]))
    /\ UNCHANGED <<key, keyVersion, now, supported, hist>>

----------------------------------------------------------------------------
(* SecureStorage.verifyIntegrity and getIntegrityInfo *)

\* what the catch, or a missing entry, gives: false for verifyIntegrity, null
\* for getIntegrityInfo
NoIntegrity(op) == IF op = "verifyIntegrity" THEN Bool(FALSE) ELSE Null

\* storedValue.checksum ? calculateChecksum(storedValue.value) === storedValue.checksum : true
ChecksumValid(sv) == sv.checksum = NoChecksum \/ sv.checksum = Sha(sv.value)

IntegrityInfo(sv) ==
    [info |-> [valid |-> ChecksumValid(sv), lastModified |-> sv.modifiedAt,
               checksum |-> sv.checksum, version |-> sv.version]]

verifyIntegrity(t, K) ==
    \E k \in K :
        /\ CanStart(t)
        /\ Commit(t, Eff([Begin("verifyIntegrity", k, Nil, NoOpts, FALSE) EXCEPT
                              !.ckey = k, !.pc = "vi_read"], localStorage, saltGen))
        /\ PushHist(t)
        /\ UNCHANGED <<key, keyVersion, now, supported>>

getIntegrityInfo(t, K) ==
    \E k \in K :
        /\ CanStart(t)
        /\ Commit(t, Eff([Begin("getIntegrityInfo", k, Nil, NoOpts, FALSE) EXCEPT
                              !.ckey = k, !.pc = "vi_read"], localStorage, saltGen))
        /\ PushHist(t)
        /\ UNCHANGED <<key, keyVersion, now, supported>>

\* after the await of encryptKey(key): the entry is read and decrypt is called
integrity_read(t) ==
    /\ tasks[t].pc = "vi_read"
    /\ LET E == Eff(tasks[t], localStorage, saltGen)
           encryptedValue == GetItem(E.ls, encryptKey(PlainName(E.T.ckey)))
       IN  Commit(t, IF Falsy(encryptedValue)
                     THEN Finish(E, NoIntegrity(E.T.op))
                     ELSE Crypt(E, "decrypt", encryptedValue, "vi_parsed", "vi_catch"))
    /\ UNCHANGED <<key, keyVersion, now, supported, hist>>

\* after the await of decrypt: JSON.parse and the checksum
integrity_parsed(t) ==
    /\ tasks[t].pc = "vi_parsed"
    /\ LET E == Eff(tasks[t], localStorage, saltGen)
           decrypted == E.T.buf
       IN  Commit(t, IF ~ParsesAsJson(decrypted)
                     THEN Finish(E, NoIntegrity(E.T.op))
                     ELSE IF E.T.op = "verifyIntegrity"
                          THEN Finish(E, Bool(ChecksumValid(decrypted.json)))
                          ELSE Finish(E, IntegrityInfo(decrypted.json)))
    /\ UNCHANGED <<key, keyVersion, now, supported, hist>>

integrity_catch(t) ==
    /\ tasks[t].pc = "vi_catch"
    /\ LET E == Eff(tasks[t], localStorage, saltGen)
       IN  Commit(t, Finish(E, NoIntegrity(E.T.op)))
    /\ UNCHANGED <<key, keyVersion, now, supported, hist>>

----------------------------------------------------------------------------
(* SecureStorage.migrateExistingData *)

\* the keys argument, as the caller passed it
KeyList(keys) == [keys |-> keys]

\* the loop of migrateExistingData over keys, up to the next await
RECURSIVE MigrateLoop(_)
MigrateLoop(E) ==
    IF E.T.idx > Len(E.T.list)
    THEN Finish(E, Void)
    ELSE LET value == GetItem(E.ls, PlainName(E.T.list[E.T.idx]))
         IN  IF value = Null
             THEN MigrateLoop([E EXCEPT !.T.idx = @ + 1])
             ELSE Crypt([E EXCEPT !.T.aux = value], "decrypt", value, "mig_skip", "mig_set")

migrateExistingData(t, KS, F) ==
    \E keys \in KS, f \in F :
        /\ CanStart(t)
        /\ LET T == [Begin("migrateExistingData", "", KeyList(keys), NoOpts, f) EXCEPT
                        !.list = keys, !.idx = 1]
               E == Eff(T, localStorage, saltGen)
           IN  Commit(t, IF ~supported THEN Finish(E, Void) ELSE MigrateLoop(E))
        /\ PushHist(t)
        /\ UNCHANGED <<key, keyVersion, now, supported>>

\* the value decrypts: it is encrypted already, the key is skipped
migrate_skip(t) ==
    /\ tasks[t].pc = "mig_skip"
    /\ LET E == Eff(tasks[t], localStorage, saltGen)
       IN  Commit(t, MigrateLoop([E EXCEPT !.T.idx = @ + 1]))
    /\ UNCHANGED <<key, keyVersion, now, supported, hist>>

\* the value does not decrypt: setItem(key, value) is called
migrate_set(t) ==
    /\ tasks[t].pc = "mig_set"
    /\ LET E == Eff(tasks[t], localStorage, saltGen)
       IN  Commit(t, SetItemEnter(E, E.T.list[E.T.idx], E.T.aux, FALSE, "mig_rm"))
    /\ UNCHANGED <<key, keyVersion, now, supported, hist>>

\* after the await of setItem: localStorage.removeItem(key)
migrate_remove(t) ==
    /\ tasks[t].pc = "mig_rm"
    /\ LET E == Eff(tasks[t], localStorage, saltGen)
           k == PlainName(E.T.list[E.T.idx])
       IN  Commit(t, MigrateLoop([E EXCEPT !.ls = Remove(E.ls, k), !.T.idx = @ + 1]))
    /\ UNCHANGED <<key, keyVersion, now, supported, hist>>

----------------------------------------------------------------------------
(* KeyRotation.exportEncryptedData and rotateKeys *)

\* data[name] = value, on a record kept as the sequence of its entries
SetData(data, n, v) ==
    IF \E i \in 1..Len(data) : data[i].name = n
    THEN [i \in 1..Len(data) |-> IF data[i].name = n THEN [name |-> n, value |-> v] ELSE data[i]]
    ELSE Append(data, [name |-> n, value |-> v])

\* the EncryptedBackup that exportEncryptedData returns: its data and metadata.itemCount
Backup(data, itemCount) == [backup |-> [data |-> data, itemCount |-> itemCount]]

\* the loop of exportEncryptedData over localStorage.key(i), up to the next await;
\* at its end the backup goes to the caller, or to rotateKeys which called it
RECURSIVE ExportLoop(_)
ExportLoop(E) ==
    LET names == KeySeq(E.ls)
    IN  IF E.T.idx > Len(names)
        THEN IF E.T.op = "exportEncryptedData"
             THEN Finish(E, Backup(E.T.data, E.T.count))
             ELSE [E EXCEPT !.T.pc = "rot_clear"]
        ELSE LET encryptedKey == names[E.T.idx]
                 encryptedValue == GetItem(E.ls, encryptedKey)
             IN  IF IsEncName(encryptedKey) /\ ~Falsy(encryptedValue)
                 THEN Crypt([E EXCEPT !.T.cur = encryptedKey], "decrypt", encryptedValue,
                            "ex_got", "ex_err")
                 ELSE ExportLoop([E EXCEPT !.T.idx = @ + 1])

rotateKeys(t, F) ==
    \E f \in F :
        /\ CanStart(t)
        /\ LET T == [Begin("rotateKeys", "", Nil, NoOpts, f) EXCEPT !.idx = 1]
           IN  Commit(t, ExportLoop(Eff(T, localStorage, saltGen)))
        /\ PushHist(t)
        /\ UNCHANGED <<key, keyVersion, now, supported>>

export_decrypted(t) ==
    /\ tasks[t].pc = "ex_got"
    /\ LET E == Eff(tasks[t], localStorage, saltGen)
       IN  Commit(t, ExportLoop([E EXCEPT !.T.data = SetData(@, E.T.cur, E.T.buf),
                                          !.T.count = @ + 1, !.T.idx = @ + 1]))
    /\ UNCHANGED <<key, keyVersion, now, supported, hist>>

export_failed(t) ==
    /\ tasks[t].pc = "ex_err"
    /\ LET E == Eff(tasks[t], localStorage, saltGen)
       IN  Commit(t, ExportLoop([E EXCEPT !.T.idx = @ + 1]))
    /\ UNCHANGED <<key, keyVersion, now, supported, hist>>

\* rotateKeys after the export: clearEncryptedData(), then initialize() up to its first await
rotateKeys_clear(t) ==
    /\ tasks[t].pc = "rot_clear"
    /\ LET E == Eff(tasks[t], clearEncryptedData(localStorage), saltGen)
       IN  Commit(t, [E EXCEPT !.T.pc = "init_new", !.T.iret = "rot_next",
                               !.T.salt = E.sg + 1, !.sg = E.sg + 1, !.T.idx = 1])
    /\ key' = 0
    /\ UNCHANGED <<keyVersion, now, supported, hist>>

\* the loop over the backup, after the await of encryptKey(key)
rotateKeys_next(t) ==
    /\ tasks[t].pc = "rot_next"
    /\ LET E == Eff(tasks[t], localStorage, saltGen)
       IN  Commit(t, IF E.T.idx > Len(E.T.data)
                     THEN Finish(Emit(E, "keyRotated", NoKey), Void)
                     ELSE Crypt(E, "encrypt", E.T.data[E.T.idx].value, "rot_store", "rot_throw"))
    /\ UNCHANGED <<key, keyVersion, now, supported, hist>>

rotateKeys_store(t) ==
    /\ tasks[t].pc = "rot_store"
    /\ LET E == Eff(tasks[t], localStorage, saltGen)
           encryptedKey == encryptKey(E.T.data[E.T.idx].name)
       IN  Commit(t, [E EXCEPT !.ls = Put(E.ls, encryptedKey, E.T.buf),
                               !.T.idx = @ + 1, !.T.pc = "rot_next"])
    /\ UNCHANGED <<key, keyVersion, now, supported, hist>>

rotateKeys_throw(t) ==
    /\ tasks[t].pc = "rot_throw"
    /\ Commit(t, Finish(Eff(tasks[t], localStorage, saltGen), Throw))
    /\ UNCHANGED <<key, keyVersion, now, supported, hist>>

exportEncryptedData(t) ==
    /\ CanStart(t)
    /\ LET T == [Begin("exportEncryptedData", "", Nil, NoOpts, FALSE) EXCEPT !.idx = 1]
       IN  Commit(t, ExportLoop(Eff(T, localStorage, saltGen)))
    /\ PushHist(t)
    /\ UNCHANGED <<key, keyVersion, now, supported>>

\* the backups the caller holds: the results of the exports remembered
Backups(t) ==
    {h.result.backup : h \in {g \in {Summary(tasks[t])} \cup {hist[i] : i \in 1..Len(hist)} :
                                Kind(g.result) = "backup"}}

\* the loop of importEncryptedData over the backup, up to the next await
ImportLoop(E) ==
    IF E.T.idx > Len(E.T.data)
    THEN Finish(E, Void)
    ELSE Crypt(E, "encrypt", E.T.data[E.T.idx].value, "im_store", "im_err")

importEncryptedData(t, F) ==
    \E b \in Backups(t), f \in F :
        /\ CanStart(t)
        /\ LET T == [Begin("importEncryptedData", "", [backup |-> b], NoOpts, f) EXCEPT
                        !.data = b.data, !.idx = 1]
           IN  Commit(t, ImportLoop(Eff(T, localStorage, saltGen)))
        /\ PushHist(t)
        /\ UNCHANGED <<key, keyVersion, now, supported>>

import_store(t) ==
    /\ tasks[t].pc = "im_store"
    /\ LET E == Eff(tasks[t], localStorage, saltGen)
           encryptedKey == E.T.data[E.T.idx].name
       IN  Commit(t, ImportLoop([E EXCEPT !.ls = Put(E.ls, encryptedKey, E.T.buf),
                                          !.T.idx = @ + 1]))
    /\ UNCHANGED <<key, keyVersion, now, supported, hist>>

import_failed(t) ==
    /\ tasks[t].pc = "im_err"
    /\ LET E == Eff(tasks[t], localStorage, saltGen)
       IN  Commit(t, ImportLoop([E EXCEPT !.T.idx = @ + 1]))
    /\ UNCHANGED <<key, keyVersion, now, supported, hist>>

----------------------------------------------------------------------------
(* NamespacedStorage *)

prefix(namespace) == "__ns_" \o namespace \o "__"

BeginNs(op, n, k, v) == [Begin(op, k, v, NoOpts, FALSE) EXCEPT !.ns = n]

ns_setItem(t, N, K, V) ==
    \E n \in N, k \in K, v \in V :
        /\ CanStart(t)
        /\ Commit(t, SetItemEnter(Eff(BeginNs("ns.setItem", n, k, v), localStorage, saltGen),
                                  prefix(n) \o k, v, FALSE, ""))
        /\ PushHist(t)
        /\ UNCHANGED <<key, keyVersion, now, supported>>

ns_getItem(t, N, K) ==
    \E n \in N, k \in K :
        /\ CanStart(t)
        /\ Commit(t, GetItemEnter(Eff(BeginNs("ns.getItem", n, k, Nil), localStorage, saltGen),
                                  prefix(n) \o k))
        /\ PushHist(t)
        /\ UNCHANGED <<key, keyVersion, now, supported>>

ns_hasItem(t, N, K) ==
    \E n \in N, k \in K :
        /\ CanStart(t)
        /\ Commit(t, GetItemEnter(Eff(BeginNs("ns.hasItem", n, k, Nil), localStorage, saltGen),
                                  prefix(n) \o k))
        /\ PushHist(t)
        /\ UNCHANGED <<key, keyVersion, now, supported>>

ns_removeItem(t, N, K) ==
    \E n \in N, k \in K :
        /\ CanStart(t)
        /\ Commit(t, RemoveItemEnter(Eff(BeginNs("ns.removeItem", n, k, Nil), localStorage, saltGen),
                                     prefix(n) \o k, ""))
        /\ PushHist(t)
        /\ UNCHANGED <<key, keyVersion, now, supported>>

\* the scan of clearNamespace and keys(): the stored names that include the prefix, stripped
NamespaceKeys(ls, p) ==
    LET hits == SelectSeq(KeySeq(ls), LAMBDA n : nameIncludes(n, p))
    IN  [i \in 1..Len(hits) |-> replaceFirst(hits[i].s, p)]

\* the loop of clearNamespace over keysToRemove, up to the next await
ClearNamespaceLoop(E) ==
    IF E.T.idx > Len(E.T.list)
    THEN Finish(E, Void)
    ELSE RemoveItemEnter(E, prefix(E.T.ns) \o E.T.list[E.T.idx], "cn_next")

clearNamespace(t, N) ==
    \E n \in N :
        /\ CanStart(t)
        /\ LET T == [BeginNs("clearNamespace", n, "", Nil) EXCEPT
                        !.list = NamespaceKeys(localStorage, prefix(n)), !.idx = 1]
           IN  Commit(t, ClearNamespaceLoop(Eff(T, localStorage, saltGen)))
        /\ PushHist(t)
        /\ UNCHANGED <<key, keyVersion, now, supported>>

clearNamespace_next(t) ==
    /\ tasks[t].pc = "cn_next"
    /\ LET E == Eff(tasks[t], localStorage, saltGen)
       IN  Commit(t, ClearNamespaceLoop([E EXCEPT !.T.idx = @ + 1]))
    /\ UNCHANGED <<key, keyVersion, now, supported, hist>>

\* keys(): the array it returns
KeyArray(list) == [list |-> list]

ns_keys(t, N) ==
    \E n \in N :
        /\ CanStart(t)
        /\ LET E == Eff(BeginNs("ns.keys", n, "", Nil), localStorage, saltGen)
           IN  Commit(t, Finish(E, KeyArray(NamespaceKeys(localStorage, prefix(n)))))
        /\ PushHist(t)
        /\ UNCHANGED <<key, keyVersion, now, supported>>

----------------------------------------------------------------------------
(* SecureStorage.getInstance, the constructor's configuration, destroy *)

NoInstance == [none |-> TRUE]

\* getInstance() with no argument
NoConfig == [iterations |-> None, compression |-> None, autoCleanup |-> None]

\* the constructor: { ...DEFAULT_CONFIG.x, ...config?.x }
MergeConfig(c) ==
    [iterations |-> IF c.iterations = None THEN DEFAULT_CONFIG.iterations ELSE c.iterations[1],
     compression |-> IF c.compression = None THEN DEFAULT_CONFIG.compression
                     ELSE c.compression[1],
     autoCleanup |-> IF c.autoCleanup = None THEN DEFAULT_CONFIG.autoCleanup
                     ELSE c.autoCleanup[1]]

\* setupAutoCleanup(): the timer held before is cleared, a new one is scheduled;
\* cleanupInterval counts the timers the storage has scheduled
setupAutoCleanup(inst) == [inst EXCEPT !.cleanupInterval = 1]

\* new SecureStorage(c)
constructor(c) ==
    LET inst == [config |-> MergeConfig(c), cleanupInterval |-> 0]
    IN  IF inst.config.autoCleanup THEN setupAutoCleanup(inst) ELSE inst

\* getDebugInfo().config of the storage that getInstance returned
DebugInfo(inst) == [config |-> inst.config]

\* SecureStorage.instance after getInstance(c)
getInstanceOf(prev, c) == IF prev = NoInstance THEN constructor(c) ELSE prev

getInstance(t, C) ==
    \E c \in C :
        /\ CanStart(t)
        /\ instance' = getInstanceOf(instance, c)
        /\ tasks' = [tasks EXCEPT ![t] =
                        Finish(Eff(Begin("getInstance", "", c, NoOpts, FALSE), localStorage, saltGen),
                               DebugInfo(instance')).T]
        /\ PushHist(t)
        /\ UNCHANGED <<localStorage, key, keyVersion, saltGen, now, supported, emitter>>

\* destroy() stops the cleanup timer and drops the listeners; the static instance stays
destroy(t) ==
    /\ CanStart(t)
    /\ instance # NoInstance
    /\ tasks' = [tasks EXCEPT ![t] =
                    Finish(Eff(Begin("destroy", "", Nil, NoOpts, FALSE), localStorage, saltGen),
                           Void).T]
    /\ instance' = [instance EXCEPT !.cleanupInterval = 0]
    /\ PushHist(t)
    /\ UNCHANGED <<localStorage, key, keyVersion, saltGen, now, supported, emitter>>

----------------------------------------------------------------------------
(* EventEmitter, for one event type *)

Listeners == {"f", "g", "h"}

(* listeners: the Set of the listeners map, in insertion order.              *)
(* sets: the Set objects that onceListeners has held; onceRef: the one it    *)
(* holds now, 0 for none.  stack: the emits that are running, innermost      *)
(* last; a frame is at position idx of its forEach, inside the listener when *)
(* running.  calls, threw, subs, returned record what happened since the     *)
(* caller's last emit began: the invocations, those that threw, the          *)
(* subscribers at the start of each emit, the emits that returned.  failed:  *)
(* the emits that threw to their caller.  fired, regAt: the invocations of   *)
(* each once-listener since its registration, and the number of emits at     *)
(* that registration.                                                        *)
NewEmitter ==
    [listeners |-> <<>>, sets |-> <<>>, onceRef |-> 0, stack |-> <<>>, emits |-> 0,
     calls |-> <<>>, threw |-> {}, subs |-> <<>>, returned |-> {}, failed |-> {},
     fired |-> [l \in Listeners |-> 0], regAt |-> [l \in Listeners |-> 0]]

Range(q) == {q[i] : i \in 1..Len(q)}

OnceSet(em) == IF em.onceRef = 0 THEN <<>> ELSE em.sets[em.onceRef]

Top(em) == em.stack[Len(em.stack)]

\* the Set a frame iterates
Iterated(em, fr) == IF fr.phase = "on" THEN em.listeners ELSE em.sets[fr.ref]

Frame(id) == [id |-> id, phase |-> "on", ref |-> 0, idx |-> 1, running |-> FALSE, nested |-> FALSE]

\* the entry of emit(event, data)
EmitEnter(em) ==
    [em EXCEPT !.emits = @ + 1,
               !.stack = Append(@, Frame(em.emits + 1)),
               !.subs = Append(@, [id |-> em.emits + 1, on |-> Range(em.listeners),
                                   once |-> Range(OnceSet(em))])]

EmitterStep(em) ==
    /\ emitter' = em
    /\ UNCHANGED <<localStorage, key, keyVersion, saltGen, now, supported, tasks, hist, instance>>

on(L) ==
    \E l \in L :
        /\ emitter.stack = <<>>
        /\ l \notin Range(emitter.listeners)
        /\ EmitterStep([emitter EXCEPT !.listeners = Append(@, l)])

once(L) ==
    \E l \in L :
        /\ emitter.stack = <<>>
        /\ l \notin Range(OnceSet(emitter))
        /\ LET em == IF emitter.onceRef = 0
                     THEN [emitter EXCEPT !.sets = Append(@, <<l>>), !.onceRef = Len(emitter.sets) + 1]
                     ELSE [emitter EXCEPT !.sets[emitter.onceRef] = Append(@, l)]
           IN  EmitterStep([em EXCEPT !.fired[l] = 0, !.regAt[l] = emitter.emits])

emit ==
    /\ emitter.stack = <<>>
    /\ emitter.emits < MaxEmits
    /\ EmitterStep(EmitEnter([emitter EXCEPT !.calls = <<>>, !.threw = {}, !.subs = <<>>,
                                             !.returned = {}]))

\* forEach calls the next listener of the Set
emit_invoke ==
    /\ emitter.stack # <<>>
    /\ LET fr == Top(emitter)
           d == Len(emitter.stack)
           set == Iterated(emitter, fr)
       IN  /\ ~fr.running
           /\ fr.idx <= Len(set)
           /\ LET l == set[fr.idx]
                  em == [emitter EXCEPT !.stack[d].running = TRUE,
                                        !.calls = Append(@, [emit |-> fr.id, l |-> l, kind |-> fr.phase])]
              IN  EmitterStep(IF fr.phase = "once" THEN [em EXCEPT !.fired[l] = @ + 1] ELSE em)

\* after the regular listeners: const onceSet = this.onceListeners.get(event)
emit_onceSet ==
    /\ emitter.stack # <<>>
    /\ LET fr == Top(emitter)
           d == Len(emitter.stack)
       IN  /\ ~fr.running
           /\ fr.phase = "on"
           /\ fr.idx > Len(emitter.listeners)
           /\ emitter.onceRef # 0
           /\ EmitterStep([emitter EXCEPT !.stack[d].phase = "once",
                                           !.stack[d].ref = emitter.onceRef,
                                           !.stack[d].idx = 1])

\* emit returns: with no once-listeners at once, else after this.onceListeners.delete(event)
emit_return ==
    /\ emitter.stack # <<>>
    /\ LET fr == Top(emitter)
           d == Len(emitter.stack)
       IN  /\ ~fr.running
           /\ fr.idx > Len(Iterated(emitter, fr))
           /\ fr.phase = "on" => emitter.onceRef = 0
           /\ EmitterStep([emitter EXCEPT !.stack = SubSeq(@, 1, d - 1),
                                           !.returned = @ \cup {fr.id},
                                           !.onceRef = IF fr.phase = "once" THEN 0 ELSE @])

listener_returns ==
    /\ emitter.stack # <<>>
    /\ Top(emitter).running
    /\ LET d == Len(emitter.stack)
       IN  EmitterStep([emitter EXCEPT !.stack[d].running = FALSE, !.stack[d].nested = FALSE,
                                       !.stack[d].idx = @ + 1])

\* an emit without try/catch: the exception of a listener reaches the callers
listener_throws_uncaught ==
    /\ emitter.stack # <<>>
    /\ Top(emitter).running
    /\ EmitterStep([emitter EXCEPT !.stack = <<>>,
                                    !.failed = @ \cup {emitter.stack[i].id : i \in 1..Len(emitter.stack)}])

\* the listener throws into the try/catch of forEach's callback
listener_throws ==
    /\ emitter.stack # <<>>
    /\ Top(emitter).running
    /\ LET fr == Top(emitter)
           d == Len(emitter.stack)
           l == Iterated(emitter, fr)[fr.idx]
       IN  EmitterStep([emitter EXCEPT !.stack[d].running = FALSE, !.stack[d].nested = FALSE,
                                       !.stack[d].idx = @ + 1,
                                       !.threw = @ \cup {[emit |-> fr.id, l |-> l, kind |-> fr.phase]}])

\* the listener calls emit for the same event
listener_emits ==
    /\ emitter.stack # <<>>
    /\ Top(emitter).running
    /\ ~Top(emitter).nested
    /\ emitter.emits < MaxEmits
    /\ LET d == Len(emitter.stack)
       IN  EmitterStep(EmitEnter([emitter EXCEPT !.stack[d].nested = TRUE]))

----------------------------------------------------------------------------
(* The environment *)

\* time passes
Tick ==
    /\ now < MaxTime
    /\ now' = now + 1
    /\ UNCHANGED <<localStorage, key, keyVersion, saltGen, supported, tasks, hist, instance, emitter>>

\* crypto.subtle.encrypt starts to reject while rotateKeys is between two entries
SubtleBreaks(t) ==
    /\ tasks[t].pc = "rot_next"
    /\ ~tasks[t].fault
    /\ tasks' = [tasks EXCEPT ![t].fault = TRUE]
    /\ UNCHANGED <<localStorage, key, keyVersion, saltGen, now, supported, hist, instance, emitter>>

\* crypto.subtle.encrypt rejected this one call only: the next one goes through
SubtleRecovers(t) ==
    /\ tasks[t].pc = "rot_throw"
    /\ tasks[t].fault
    /\ tasks' = [tasks EXCEPT ![t].fault = FALSE]
    /\ UNCHANGED <<localStorage, key, keyVersion, saltGen, now, supported, hist, instance, emitter>>

\* the page is loaded again: new SecureStorage and new EncryptionHelper(), whose
\* constructor reads the key version; what the callers of the old page had
\* been answered stays known
Restart ==
    /\ \A t \in AllTasks : CanStart(t)
    /\ key' = 0
    /\ keyVersion' = IF HasItem(localStorage, VersionName)
                      THEN localStorage[VersionName].version ELSE 1
    /\ instance' = constructor(NoConfig)
    /\ emitter' = NewEmitter
    /\ UNCHANGED <<localStorage, saltGen, now, supported, tasks, hist>>

\* a record with a bit flipped: AES-GCM authenticates it under no key
Tampered(r) == Cipher(0, r.ct.pt)

\* somebody edits the record of k in localStorage between two calls
Tamper(K) ==
    \E k \in K :
        LET n == encryptKey(PlainName(k))
        IN  /\ Quiet
            /\ HasItem(localStorage, n)
            /\ Kind(localStorage[n]) = "ct"
            /\ localStorage[n] # Tampered(localStorage[n])
            /\ localStorage' = Put(localStorage, n, Tampered(localStorage[n]))
            /\ UNCHANGED <<key, keyVersion, saltGen, now, supported, tasks, hist, instance, emitter>>

\* the crypto capability changes between two calls
SetSupported ==
    /\ Quiet
    /\ supported' = ~supported
    /\ UNCHANGED <<localStorage, key, keyVersion, saltGen, now, tasks, hist, instance, emitter>>

EmptyStorage == [n \in {} |-> Nil]

\* a fresh page: empty localStorage, new EncryptionHelper() and SecureStorage
Fresh(w) ==
    /\ localStorage = EmptyStorage
    /\ key = 0
    /\ keyVersion = 1
    /\ saltGen = 0
    /\ now = 1
    /\ supported = TRUE
    /\ tasks = [t \in AllTasks |-> IdleTask]
    /\ hist = Window(w)
    /\ instance = constructor(NoConfig)
    /\ emitter = NewEmitter

Init == Fresh(HistLen)

\* the page is loaded again over what an earlier session left in localStorage:
\* the salt and the key version are persisted, no key is cached
Reloaded(ls, version, w) ==
    /\ localStorage = ls
    /\ key = 0
    /\ keyVersion = version
    /\ saltGen = 1
    /\ now = 1
    /\ supported = TRUE
    /\ tasks = [t \in AllTasks |-> IdleTask]
    /\ hist = Window(w)
    /\ instance = constructor(NoConfig)
    /\ emitter = NewEmitter

\* what one initialize() leaves in an empty localStorage
Initialized ==
    Put(Put(EmptyStorage, VersionName, VersionStr(2)), SaltName, SaltStr(1))

\* the record setItem / setItemWithExpiry wrote at time 1 under the first salt
Record(v, expiresAt) == Cipher(1, Json(StoredValue(v, 1, FALSE, expiresAt, Sha(v))))

----------------------------------------------------------------------------
(* Specifications *)

Values == {Text(""), Text("v"), Text(x1024)}
ExpiryOptions == [expiresIn : {None, Some(0), Some(1)}, expiresAt : {None, Some(0), Some(2)}]

(* Spec: one caller on a fresh page, awaiting every call before the next;   *)
(* the crypto capability may change between calls and an encryption may     *)
(* fail.                                                                    *)
Next ==
    \/ setItem(1, {"a"}, Values, BOOLEAN)
    \/ getItem(1, {"a"})
    \/ hasItem(1, {"a"})
    \/ removeItem(1, {"a"})
    \/ initialize(1)
    \/ cryptResume(1)
    \/ setItem_compressed(1)
    \/ setItem_encrypt(1)
    \/ setItem_store(1)
    \/ setItem_catch(1)
    \/ getItem_read(1)
    \/ getItem_parsed(1)
    \/ getItem_migrated(1)
    \/ getItem_catch(1)
    \/ removeItem_remove(1)
    \/ SetSupported

Spec == Init /\ [][Next]_vars

(* SpecExpiry: one caller storing with an expiration and reading while time passes. *)
NextExpiry ==
    \/ setItemWithExpiry(1, {"a"}, {Text(""), Text("v")}, ExpiryOptions, BOOLEAN)
    \/ getItem(1, {"a"})
    \/ initialize(1)
    \/ cryptResume(1)
    \/ setItem_encrypt(1)
    \/ setItem_store(1)
    \/ setItem_catch(1)
    \/ getItem_read(1)
    \/ getItem_parsed(1)
    \/ getItem_migrated(1)
    \/ getItem_expired(1)
    \/ removeItem_remove(1)
    \/ Tick

SpecExpiry == Init /\ [][NextExpiry]_vars

(* SpecRotate: one caller storing, rotating the keys and reading. *)
NextRotate ==
    \/ setItem(1, {"a", "b"}, {Text("v"), Text("w")}, {FALSE})
    \/ getItem(1, {"a", "b"})
    \/ rotateKeys(1, {FALSE})
    \/ initialize(1)
    \/ cryptResume(1)
    \/ setItem_encrypt(1)
    \/ setItem_store(1)
    \/ getItem_read(1)
    \/ getItem_parsed(1)
    \/ export_decrypted(1)
    \/ rotateKeys_clear(1)
    \/ rotateKeys_next(1)
    \/ rotateKeys_store(1)

SpecRotate == Fresh(LongHist) /\ [][NextRotate]_vars

(* SpecFirstUse: two callers on a fresh page that do not await each other. *)
NextFirstUse ==
    \/ setItem(1, {"a"}, {Text("v")}, {FALSE})
    \/ setItem(2, {"b"}, {Text("w")}, {FALSE})
    \/ getItem(1, {"a", "b"})
    \/ \E t \in AllTasks : initialize(t)
    \/ \E t \in AllTasks : cryptResume(t)
    \/ \E t \in AllTasks : setItem_encrypt(t)
    \/ \E t \in AllTasks : setItem_store(t)
    \/ getItem_read(1)
    \/ getItem_parsed(1)
    \/ getItem_catch(1)

SpecFirstUse == Init /\ [][NextFirstUse]_vars

(* SpecCleanup: a reloaded page holding an entry "a" that expires at time 2 *)
(* and an entry "b" that does not expire; one caller reads while the       *)
(* cleanup (manual or timer-driven) runs and time passes.                  *)
InitCleanup ==
    \E v \in {Text("v"), Text("w")} :
        Reloaded(Put(Put(Initialized, encryptKey(PlainName("a")), Record(v, Some(2))),
                     encryptKey(PlainName("b")), Record(v, None)),
                 2, HistLen)

NextCleanup ==
    \/ getItem(1, {"a", "b"})
    \/ cleanExpired(2)
    \/ \E t \in AllTasks : initializeFromStored(t)
    \/ \E t \in AllTasks : cryptResume(t)
    \/ getItem_read(1)
    \/ getItem_parsed(1)
    \/ removeItem_remove(1)
    \/ getItem_expired(1)
    \/ cleanExpired_check(2)
    \/ Tick

SpecCleanup == InitCleanup /\ [][NextCleanup]_vars

(* SpecLegacy: a reloaded page over data of the first version of the        *)
(* library: a plain value under the plain name "a", and under the           *)
(* obfuscated names of "b", "c", "d" bare strings encrypted under the       *)
(* persisted salt, with no wrapper.  One caller reads.                      *)
PlainLegacy == Text("p")

\* an application's own JSON object that has a value and a version property
AppJson ==
    Json([value |-> Text("x"), createdAt |-> 0, modifiedAt |-> 0, version |-> 1,
          compressed |-> FALSE, expiresAt |-> None, checksum |-> NoChecksum])

V1Value == ("b" :> Text("")) @@ ("c" :> Text("v")) @@ ("d" :> AppJson)

RECURSIVE PutV1(_, _)
PutV1(ls, K) ==
    IF K = {} THEN ls
    ELSE LET k == CHOOSE x \in K : TRUE
         IN  PutV1(Put(ls, encryptKey(PlainName(k)), Cipher(1, V1Value[k])), K \ {k})

InitLegacy ==
    Reloaded(PutV1(Put(Put(EmptyStorage, SaltName, SaltStr(1)), PlainName("a"), PlainLegacy),
                   DOMAIN V1Value),
             1, HistLen)

NextLegacy ==
    \/ getItem(1, {"a"} \cup DOMAIN V1Value)
    \/ initializeFromStored(1)
    \/ cryptResume(1)
    \/ getItem_read(1)
    \/ getItem_parsed(1)
    \/ setItem_encrypt(1)
    \/ setItem_store(1)
    \/ getItem_migrated(1)
    \/ getItem_catch(1)

SpecLegacy == InitLegacy /\ [][NextLegacy]_vars

(* SpecNs: one caller working through namespaces on a fresh page, in an     *)
(* environment with the crypto capability or in one without it.             *)
Namespaces == {"a", "a__"}
NsKeys == {"k", "__k"}

InitNs ==
    /\ localStorage = EmptyStorage
    /\ key = 0
    /\ keyVersion = 1
    /\ saltGen = 0
    /\ now = 1
    /\ supported \in BOOLEAN
    /\ tasks = [t \in AllTasks |-> IdleTask]
    /\ hist = Window(HistLen)
    /\ instance = constructor(NoConfig)
    /\ emitter = NewEmitter

NextNs ==
    \/ ns_setItem(1, Namespaces, NsKeys, {Text("v"), Text("w")})
    \/ ns_getItem(1, Namespaces, NsKeys)
    \/ ns_hasItem(1, Namespaces, NsKeys)
    \/ ns_removeItem(1, Namespaces, NsKeys)
    \/ clearNamespace(1, Namespaces)
    \/ clearNamespace_next(1)
    \/ initialize(1)
    \/ cryptResume(1)
    \/ setItem_encrypt(1)
    \/ setItem_store(1)
    \/ getItem_read(1)
    \/ getItem_parsed(1)
    \/ removeItem_remove(1)

SpecNs == InitNs /\ [][NextNs]_vars

(* SpecClear: one caller storing (an encryption may fail, which leaves a    *)
(* plain entry) and clearing.  The key "__enc_x" gives a plain entry whose  *)
(* name carries the marker prefix.                                          *)
NextClear ==
    \/ setItem(1, {"a", "__enc_x"}, {Text("v")}, BOOLEAN)
    \/ clear(1)
    \/ initialize(1)
    \/ cryptResume(1)
    \/ setItem_encrypt(1)
    \/ setItem_store(1)
    \/ setItem_catch(1)

SpecClear == Init /\ [][NextClear]_vars

(* SpecSweep: one caller storing entries with and without an expiry, and    *)
(* running cleanExpired while time passes.  A failed encryption of          *)
(* setItem("__enc_x", ...) leaves a plain entry that the scan picks up.     *)
NextSweep ==
    \/ setItemWithExpiry(1, {"a", "b"}, {Text("v")},
                         [expiresIn : {None, Some(1)}, expiresAt : {None}], {FALSE})
    \/ setItem(1, {"__enc_x"}, {Text("v")}, {TRUE})
    \/ cleanExpired(1)
    \/ initialize(1)
    \/ cryptResume(1)
    \/ setItem_encrypt(1)
    \/ setItem_store(1)
    \/ setItem_catch(1)
    \/ cleanExpired_check(1)
    \/ cleanExpired_error(1)
    \/ Tick

SpecSweep == Init /\ [][NextSweep]_vars

(* SpecRotateConc: on a fresh page one caller rotates the keys while        *)
(* another stores, neither awaiting the other.                              *)
NextRotateConc ==
    \/ rotateKeys(1, {FALSE})
    \/ setItem(2, {"a"}, {Text("v")}, {FALSE})
    \/ \E t \in AllTasks : initialize(t)
    \/ \E t \in AllTasks : cryptResume(t)
    \/ setItem_encrypt(2)
    \/ setItem_store(2)
    \/ export_decrypted(1)
    \/ export_failed(1)
    \/ rotateKeys_clear(1)
    \/ rotateKeys_next(1)
    \/ rotateKeys_store(1)

SpecRotateConc == Init /\ [][NextRotateConc]_vars

(* SpecVersion: one caller, on a fresh page or on a page loaded again, using *)
(* every operation of the facade, backups included.                         *)
InitVersion ==
    \/ Fresh(HistLen)
    \/ Reloaded(Put(Initialized, encryptKey(PlainName("a")), Record(Text("v"), None)), 2, HistLen)

NextVersion ==
    \/ setItem(1, {"a"}, {Text("v")}, BOOLEAN)
    \/ getItem(1, {"a"})
    \/ removeItem(1, {"a"})
    \/ clear(1)
    \/ cleanExpired(1)
    \/ rotateKeys(1, BOOLEAN)
    \/ exportEncryptedData(1)
    \/ importEncryptedData(1, BOOLEAN)
    \/ initialize(1)
    \/ initializeFromStored(1)
    \/ cryptResume(1)
    \/ setItem_encrypt(1)
    \/ setItem_store(1)
    \/ setItem_catch(1)
    \/ getItem_read(1)
    \/ getItem_parsed(1)
    \/ getItem_catch(1)
    \/ removeItem_remove(1)
    \/ cleanExpired_check(1)
    \/ export_decrypted(1)
    \/ rotateKeys_clear(1)
    \/ rotateKeys_next(1)
    \/ rotateKeys_store(1)
    \/ rotateKeys_throw(1)
    \/ import_store(1)
    \/ import_failed(1)

SpecVersion == InitVersion /\ [][NextVersion]_vars

(* SpecBackup: one caller stores, takes a backup, rotates the keys (the      *)
(* rotation completes, or fails once the encryption starts to reject),       *)
(* imports the backup and reads.                                             *)
NextBackup ==
    \/ tasks[1].op \in {"none", "setItem"} /\ setItem(1, {"a", "b"}, {Text(""), Text("v")}, {FALSE})
    \/ tasks[1].op = "setItem" /\ exportEncryptedData(1)
    \/ tasks[1].op = "exportEncryptedData" /\ rotateKeys(1, {FALSE})
    \/ tasks[1].op = "rotateKeys" /\ importEncryptedData(1, {FALSE})
    \/ tasks[1].op \in {"importEncryptedData", "getItem"} /\ getItem(1, {"a", "b"})
    \/ SubtleBreaks(1)
    \/ initialize(1)
    \/ cryptResume(1)
    \/ setItem_encrypt(1)
    \/ setItem_store(1)
    \/ getItem_read(1)
    \/ getItem_parsed(1)
    \/ getItem_migrated(1)
    \/ export_decrypted(1)
    \/ rotateKeys_clear(1)
    \/ rotateKeys_next(1)
    \/ rotateKeys_store(1)
    \/ rotateKeys_throw(1)
    \/ import_store(1)

SpecBackup == Fresh(LongHist) /\ [][NextBackup]_vars

(* SpecFallback: one caller while the crypto capability comes and goes       *)
(* between the calls.                                                        *)
NextFallback ==
    \/ setItem(1, {"a"}, {Text(""), Text("v")}, {FALSE})
    \/ setItemWithExpiry(1, {"a"}, {Text("w")}, [expiresIn : {Some(1)}, expiresAt : {None}], {FALSE})
    \/ getItem(1, {"a"})
    \/ hasItem(1, {"a"})
    \/ removeItem(1, {"a"})
    \/ SetSupported
    \/ initialize(1)
    \/ cryptResume(1)
    \/ setItem_encrypt(1)
    \/ setItem_store(1)
    \/ getItem_read(1)
    \/ getItem_parsed(1)
    \/ getItem_migrated(1)
    \/ getItem_catch(1)
    \/ removeItem_remove(1)

SpecFallback == Init /\ [][NextFallback]_vars

(* SpecTamper: one caller; between the calls a stored record is edited.      *)
(* A failing encryption leaves a value under the plain name.                 *)
NextTamper ==
    \/ setItem(1, {"a"}, {Text("v"), Text("w")}, BOOLEAN)
    \/ getItem(1, {"a"})
    \/ Tamper({"a"})
    \/ initialize(1)
    \/ cryptResume(1)
    \/ setItem_encrypt(1)
    \/ setItem_store(1)
    \/ setItem_catch(1)
    \/ getItem_read(1)
    \/ getItem_parsed(1)
    \/ getItem_catch(1)

SpecTamper == Init /\ [][NextTamper]_vars

(* SpecChecksum: a page loaded again over a record whose envelope carries    *)
(* a checksum that matches its payload, one that does not, or none; one      *)
(* caller reads while time passes.                                           *)
InitChecksum ==
    \E v \in {Text(""), Text("v"), Gz(Text("v"))}, x \in {None, Some(2)} :
      \E c \in {Sha(v), Sha(Text("z")), NoChecksum} :
        Reloaded(Put(Initialized, encryptKey(PlainName("a")),
                     Cipher(1, Json(StoredValue(v, 1, Kind(v) = "gz", x, c)))),
                 2, HistLen)

NextChecksum ==
    \/ getItem(1, {"a"})
    \/ initializeFromStored(1)
    \/ cryptResume(1)
    \/ setItem_encrypt(1)
    \/ setItem_store(1)
    \/ getItem_read(1)
    \/ getItem_parsed(1)
    \/ getItem_migrated(1)
    \/ getItem_expired(1)
    \/ removeItem_remove(1)
    \/ Tick

SpecChecksum == InitChecksum /\ [][NextChecksum]_vars

(* SpecIntegrity: one caller over the data of SpecLegacy stores, clears and  *)
(* queries the integrity of the entries.                                     *)
NextIntegrity ==
    \/ setItem(1, {"c"}, {Text(""), Text("v")}, {FALSE})
    \/ clear(1)
    \/ verifyIntegrity(1, {"a"} \cup DOMAIN V1Value)
    \/ getIntegrityInfo(1, {"a"} \cup DOMAIN V1Value)
    \/ initialize(1)
    \/ initializeFromStored(1)
    \/ cryptResume(1)
    \/ setItem_encrypt(1)
    \/ setItem_store(1)
    \/ integrity_read(1)
    \/ integrity_parsed(1)

SpecIntegrity == InitLegacy /\ [][NextIntegrity]_vars

(* SpecIntegrityConc: one caller clears the store and queries the integrity *)
(* of a key while a setItem of another caller is in flight.                  *)
NextIntegrityConc ==
    \/ setItem(2, {"a"}, {Text("v")}, {FALSE})
    \/ clear(1)
    \/ verifyIntegrity(1, {"a"})
    \/ getIntegrityInfo(1, {"a"})
    \/ \E t \in AllTasks : initialize(t)
    \/ \E t \in AllTasks : cryptResume(t)
    \/ setItem_encrypt(2)
    \/ setItem_store(2)
    \/ integrity_read(1)
    \/ integrity_parsed(1)
    \/ integrity_catch(1)

SpecIntegrityConc == Init /\ [][NextIntegrityConc]_vars

(* SpecEmitter: listeners are registered and events emitted; a listener      *)
(* returns or throws.                                                        *)
InitEmitter == Fresh(HistLen)

NextEmitter ==
    \/ on({"f", "g"})
    \/ once({"g", "h"})
    \/ emit
    \/ emit_invoke
    \/ emit_onceSet
    \/ emit_return
    \/ listener_returns
    \/ listener_throws

SpecEmitter == InitEmitter /\ [][NextEmitter]_vars

(* SpecEmitterNested: as SpecEmitter, and a listener may emit the event     *)
(* again while it runs.                                                      *)
NextEmitterNested ==
    \/ on({"f"})
    \/ once({"g", "h"})
    \/ emit
    \/ emit_invoke
    \/ emit_onceSet
    \/ emit_return
    \/ listener_returns
    \/ listener_emits

SpecEmitterNested == InitEmitter /\ [][NextEmitterNested]_vars

(* SpecInstance: the module is loaded, no storage exists yet; callers ask    *)
(* for the singleton with and without a configuration, and destroy it.       *)
Configs ==
    [iterations : {None, Some(150000)}, compression : {None, Some(FALSE), Some(TRUE)},
     autoCleanup : {None, Some(FALSE)}]

InitInstance ==
    /\ localStorage = EmptyStorage
    /\ key = 0
    /\ keyVersion = 1
    /\ saltGen = 0
    /\ now = 1
    /\ supported = TRUE
    /\ tasks = [t \in AllTasks |-> IdleTask]
    /\ hist = Window(HistLen)
    /\ instance = NoInstance
    /\ emitter = NewEmitter

NextInstance ==
    \/ getInstance(1, Configs)
    \/ destroy(1)

SpecInstance == InitInstance /\ [][NextInstance]_vars

(* SpecMigrate: an application that kept plain values in localStorage       *)
(* migrates them and reads; an encryption may fail during a migration.       *)
PlainData == ("a" :> Text("p")) @@ ("b" :> Text("q"))

InitMigrate ==
    /\ localStorage = [n \in {PlainName(k) : k \in DOMAIN PlainData} |-> PlainData[n.s]]
    /\ key = 0
    /\ keyVersion = 1
    /\ saltGen = 0
    /\ now = 1
    /\ supported = TRUE
    /\ tasks = [t \in AllTasks |-> IdleTask]
    /\ hist = Window(HistLen)
    /\ instance = constructor(NoConfig)
    /\ emitter = NewEmitter

NextMigrate ==
    \/ migrateExistingData(1, {<<"a">>, <<"a", "b">>, <<"b", "c">>}, BOOLEAN)
    \/ tasks[1].op # "none" /\ getItem(1, DOMAIN PlainData)
    \/ initialize(1)
    \/ cryptResume(1)
    \/ migrate_set(1)
    \/ migrate_remove(1)
    \/ setItem_encrypt(1)
    \/ setItem_store(1)
    \/ setItem_catch(1)
    \/ getItem_read(1)
    \/ getItem_parsed(1)
    \/ getItem_catch(1)

SpecMigrate == InitMigrate /\ [][NextMigrate]_vars

(* SpecNsKeys: one caller, with or without crypto, stores and removes keys  *)
(* through one namespace handle and lists the keys of the namespace.         *)
NextNsKeys ==
    \/ ns_setItem(1, {"n"}, {"a", "b"}, {Text("v")})
    \/ ns_removeItem(1, {"n"}, {"a", "b"})
    \/ ns_keys(1, {"n"})
    \/ initialize(1)
    \/ cryptResume(1)
    \/ setItem_encrypt(1)
    \/ setItem_store(1)
    \/ removeItem_remove(1)

SpecNsKeys == InitNs /\ [][NextNsKeys]_vars

(* SpecSnapshot: a page loaded again over three records; one caller takes    *)
(* a backup while a second caller removes one item or stores one.            *)
SnapshotData == ("a" :> Text("p")) @@ ("b" :> Text("q")) @@ ("c" :> Text("r"))

RECURSIVE PutRecords(_, _)
PutRecords(ls, K) ==
    IF K = {} THEN ls
    ELSE LET k == CHOOSE x \in K : TRUE
         IN  PutRecords(Put(ls, encryptKey(PlainName(k)), Record(SnapshotData[k], None)), K \ {k})

InitSnapshot == Reloaded(PutRecords(Initialized, DOMAIN SnapshotData), 2, HistLen)

NextSnapshot ==
    \/ tasks[1].op = "none" /\ exportEncryptedData(1)
    \/ tasks[2].op = "none" /\ removeItem(2, DOMAIN SnapshotData)
    \/ tasks[2].op = "none" /\ setItem(2, {"a", "d"}, {Text("s")}, {FALSE})
    \/ \E t \in AllTasks : initializeFromStored(t)
    \/ \E t \in AllTasks : cryptResume(t)
    \/ export_decrypted(1)
    \/ removeItem_remove(2)
    \/ setItem_encrypt(2)
    \/ setItem_store(2)

SpecSnapshot == InitSnapshot /\ [][NextSnapshot]_vars

(* SpecRewrite: one caller stores and reads one key; the encryption of a     *)
(* call may fail, and the crypto capability comes and goes between calls.    *)
NextRewrite ==
    \/ setItem(1, {"a"}, {Text("v"), Text("w")}, BOOLEAN)
    \/ getItem(1, {"a"})
    \/ SetSupported
    \/ initialize(1)
    \/ cryptResume(1)
    \/ setItem_encrypt(1)
    \/ setItem_store(1)
    \/ setItem_catch(1)
    \/ getItem_read(1)
    \/ getItem_parsed(1)
    \/ getItem_catch(1)

SpecRewrite == Init /\ [][NextRewrite]_vars

(* SpecRotateFail: a page loaded again over three records; one caller        *)
(* rotates the keys, and the encryption of one backup entry may reject.      *)
NextRotateFail ==
    \/ rotateKeys(1, {FALSE})
    \/ SubtleBreaks(1)
    \/ SubtleRecovers(1)
    \/ initializeFromStored(1)
    \/ initialize(1)
    \/ cryptResume(1)
    \/ export_decrypted(1)
    \/ rotateKeys_clear(1)
    \/ rotateKeys_next(1)
    \/ rotateKeys_store(1)
    \/ rotateKeys_throw(1)

SpecRotateFail == InitSnapshot /\ [][NextRotateFail]_vars

(* SpecRestart: one caller stores, reads and removes; between two calls the  *)
(* page may be loaded again.                                                 *)
NextRestart ==
    \/ setItem(1, {"a", "b"}, {Text("v"), Text("w")}, {FALSE})
    \/ getItem(1, {"a", "b"})
    \/ removeItem(1, {"a", "b"})
    \/ Restart
    \/ initialize(1)
    \/ initializeFromStored(1)
    \/ cryptResume(1)
    \/ setItem_encrypt(1)
    \/ setItem_store(1)
    \/ getItem_read(1)
    \/ getItem_parsed(1)
    \/ removeItem_remove(1)

SpecRestart == Init /\ [][NextRestart]_vars

(* SpecVanish: a page loaded again over two records that expire at time 1;   *)
(* one caller runs cleanExpired while a second caller clears the store,      *)
(* removes an item or rotates the keys, and time passes.                     *)
InitVanish ==
    Reloaded(Put(Put(Initialized, encryptKey(PlainName("a")), Record(Text("v"), Some(1))),
                 encryptKey(PlainName("b")), Record(Text("w"), Some(1))),
             2, HistLen)

NextVanish ==
    \/ cleanExpired(1)
    \/ clear(2)
    \/ removeItem(2, {"a", "b"})
    \/ rotateKeys(2, {FALSE})
    \/ Tick
    \/ \E t \in AllTasks : initializeFromStored(t)
    \/ \E t \in AllTasks : initialize(t)
    \/ \E t \in AllTasks : cryptResume(t)
    \/ cleanExpired_check(1)
    \/ cleanExpired_error(1)
    \/ removeItem_remove(2)
    \/ export_decrypted(2)
    \/ export_failed(2)
    \/ rotateKeys_clear(2)
    \/ rotateKeys_next(2)
    \/ rotateKeys_store(2)

SpecVanish == InitVanish /\ [][NextVanish]_vars

(* SpecReadWrite: a page loaded again over two records that expire at time   *)
(* 1; one caller reads or tests a key, and while that call is in flight a    *)
(* second caller stores a new value, with or without an expiry.              *)
InFlight(t) == tasks[t].pc \notin {"idle", "done"}

NextReadWrite ==
    \/ getItem(1, {"a", "b"})
    \/ hasItem(1, {"a"})
    \/ InFlight(1) /\ tasks[2].op = "none" /\ setItem(2, {"a"}, {Text("n")}, {FALSE})
    \/ Tick
    \/ \E t \in AllTasks : initializeFromStored(t)
    \/ \E t \in AllTasks : cryptResume(t)
    \/ getItem_read(1)
    \/ getItem_parsed(1)
    \/ removeItem_remove(1)
    \/ getItem_expired(1)
    \/ setItem_encrypt(2)
    \/ setItem_store(2)

SpecReadWrite == InitVanish /\ [][NextReadWrite]_vars

(* SpecSweepConc: a page loaded again over two records that expire at time   *)
(* 1; one caller runs cleanExpired while a second caller stores a key anew,  *)
(* with or without an expiry, and time passes.                               *)
NextSweepConc ==
    \/ cleanExpired(1)
    \/ tasks[2].op = "none" /\ setItem(2, {"a"}, {Text("n")}, {FALSE})
    \/ tasks[2].op = "none"
          /\ setItemWithExpiry(2, {"b"}, {Text("n")}, [expiresIn : {Some(1)}, expiresAt : {None}],
                               {FALSE})
    \/ Tick
    \/ \E t \in AllTasks : initializeFromStored(t)
    \/ \E t \in AllTasks : cryptResume(t)
    \/ cleanExpired_check(1)
    \/ setItem_encrypt(2)
    \/ setItem_store(2)

SpecSweepConc == InitVanish /\ [][NextSweepConc]_vars

----------------------------------------------------------------------------
(* Claims *)

\* the operation that completed last, and the one that completed before it
Last == tasks[1]
Prev == hist[1]
LastIs(ops) == Last.pc = "done" /\ Last.op \in ops
PrevIs(ops) == Prev.op \in ops
Emitted(T, type) == \E i \in 1..Len(T.events) : T.events[i].type = type

\* how many events of a type a task has emitted
RECURSIVE CountEvents(_, _)
CountEvents(events, type) ==
    IF events = <<>> THEN 0
    ELSE (IF Head(events).type = type THEN 1 ELSE 0) + CountEvents(Tail(events), type)

C4_ExpiryWriteKept ==
    (LastIs({"setItemWithExpiry"}) /\ Last.sup /\ Last.fault)
    => /\ GetItem(localStorage, PlainName(Last.key)) = Last.value
       /\ Emitted(Last, "error")
       /\ Last.result = Void

\* the expiry timestamp a completed setItemWithExpiry asked for
Requested(h) ==
    IF h.opts.expiresIn # None THEN h.at + h.opts.expiresIn[1] ELSE h.opts.expiresAt[1]

(* C5: a getItem(k) that directly follows setItemWithExpiry(k, v, opts)      *)
(* returns v while the time is before the expiry timestamp; when it runs     *)
(* after that timestamp it returns null and leaves no entry for k in         *)
(* localStorage (so that hasItem(k) is false).                               *)
C5_ExpiryOnRead ==
    (LastIs({"getItem"}) /\ PrevIs({"setItemWithExpiry"}) /\ Prev.key = Last.key
       /\ ~Prev.fault /\ Prev.result = Void
       /\ (Prev.opts.expiresIn = None) # (Prev.opts.expiresAt = None))
    => /\ now < Requested(Prev) => Last.result = Prev.value
       /\ Last.at > Requested(Prev)
          => /\ Last.result = Null
             /\ ~HasItem(localStorage, encryptKey(PlainName(Last.key)))
             /\ ~HasItem(localStorage, PlainName(Last.key))

(* C2: after rotateKeys() completes, getItem(k) returns the value that       *)
(* setItem(k, v) stored before the rotation, and the key-version counter is  *)
(* strictly greater than before the rotation.                                *)
C2_RotationReadable ==
    /\ (LastIs({"getItem"}) /\ PrevIs({"rotateKeys"}) /\ Prev.result = Void
          /\ hist[2].op = "setItem" /\ hist[2].key = Last.key)
       => Last.result = hist[2].value
    /\ LastIs({"rotateKeys"}) => keyVersion > Last.ver

(* C3: when several setItem calls start while no key is cached and no salt   *)
(* is persisted, exactly one salt is generated, and once the calls have      *)
(* completed every record they wrote is encrypted under the key of the       *)
(* persisted salt, so it is decryptable.                                     *)
C3_OneKey ==
    Quiet => /\ saltGen <= 1
             /\ \A n \in DOMAIN localStorage :
                    Kind(localStorage[n]) = "ct"
                    => localStorage[n].ct.salt = StoredSalt(localStorage)

(* C6: for the one entry whose expiry has passed, getItem and cleanExpired   *)
(* together emit expired once, however their steps interleave.               *)
C6_ExpiredOnce ==
    CountEvents(tasks[1].events, "expired") + CountEvents(tasks[2].events, "expired") <= 1

\* the entry of k under its obfuscated name is the encrypted wrapper of v
IsWrapped(k, v) ==
    LET r == GetItem(localStorage, encryptKey(PlainName(k)))
    IN  /\ Kind(r) = "ct"
        /\ Kind(r.ct.pt) = "json"
        /\ r.ct.pt.json.version = STORAGE_VERSION
        /\ r.ct.pt.json.value = v

\* the getItem that completed last directly follows a getItem of the same key
Repeated == PrevIs({"getItem"}) /\ Prev.key = Last.key

(* C7: with a plain value under the plain name k and no obfuscated entry,    *)
(* getItem(k) returns that value and leaves it wrapped and encrypted under   *)
(* the obfuscated name; a second getItem(k) returns the same value and       *)
(* neither migrates again nor fails.                                         *)
C7_PlainMigrates ==
    (LastIs({"getItem"}) /\ Last.key = "a")
    => /\ Last.result = PlainLegacy
       /\ IsWrapped("a", PlainLegacy)
       /\ Repeated => ~Emitted(Last, "encrypted") /\ ~Emitted(Last, "error")

(* C8: for a bare string s encrypted under the obfuscated name of k, every   *)
(* getItem(k) returns s, the record is a version 2 wrapper of s after the    *)
(* first one, and no later getItem(k) rewrites it.                           *)
C8_V1Migrates ==
    (LastIs({"getItem"}) /\ Last.key \in DOMAIN V1Value)
    => /\ Last.result = V1Value[Last.key]
       /\ IsWrapped(Last.key, V1Value[Last.key])
       /\ Repeated => ~Emitted(Last, "encrypted")

(* C9: after ns.clearNamespace() has completed, ns.hasItem(k) is false for   *)
(* every key k of the namespace, with crypto available as well as            *)
(* unavailable.                                                              *)
C9_ClearNamespace ==
    (LastIs({"ns.hasItem"}) /\ PrevIs({"clearNamespace"}) /\ Prev.ns = Last.ns
       /\ Prev.sup = Last.sup)
    => Last.result = Bool(FALSE)

(* C10: a value stored with namespace(n1).setItem(k1, v) is still stored     *)
(* after a setItem, getItem, removeItem or clearNamespace on another         *)
(* namespace n2, whatever the names and the keys.                            *)
C10_Isolation ==
    (LastIs({"ns.setItem", "ns.getItem", "ns.removeItem", "clearNamespace"})
       /\ PrevIs({"ns.setItem"}) /\ Prev.ns # Last.ns /\ Prev.sup = Last.sup)
    => IF Prev.sup
       THEN IsWrapped(prefix(Prev.ns) \o Prev.key, Prev.value)
       ELSE GetItem(localStorage, PlainName(prefix(Prev.ns) \o Prev.key)) = Prev.value

(* C11: with crypto available, when removeItem(k) has completed neither the  *)
(* obfuscated entry of k nor the plain entry k exists, exactly one deleted   *)
(* event was emitted and it carries k; a getItem(k) that directly follows    *)
(* returns null.                                                             *)
C11_Remove ==
    /\ (LastIs({"removeItem"}) /\ Last.sup)
       => /\ ~HasItem(localStorage, encryptKey(PlainName(Last.key)))
          /\ ~HasItem(localStorage, PlainName(Last.key))
          /\ Last.events = <<[type |-> "deleted", key |-> PlainName(Last.key)]>>
          /\ Last.result = Void
    /\ (LastIs({"getItem"}) /\ Last.sup /\ PrevIs({"removeItem"}) /\ Prev.sup
          /\ Prev.key = Last.key)
       => Last.result = Null

\* a removeItem(k) has completed after a setItem(k, v) whose encryption failed,
\* which had left v under the plain name
C11_Witness ==
    /\ LastIs({"removeItem"}) /\ Last.sup
    /\ PrevIs({"setItem"}) /\ Prev.key = Last.key /\ Prev.sup /\ Prev.fault

(* C12: when clear() has returned, localStorage holds no name that starts    *)
(* with __enc_, no __app_salt and no __key_version, and one cleared event    *)
(* was emitted.                                                              *)
C12_ClearAll ==
    LastIs({"clear"})
    => /\ \A n \in DOMAIN localStorage : ~IsEncName(n)
       /\ ~HasItem(localStorage, SaltName)
       /\ ~HasItem(localStorage, VersionName)
       /\ CountEvents(Last.events, "cleared") = 1

\* a name that is neither __enc_-prefixed nor reserved
IsPlainEntry(n) == ~IsEncName(n) /\ n # SaltName /\ n # VersionName

(* C13: a step of clear() neither adds, modifies nor removes an entry whose  *)
(* name is neither __enc_-prefixed nor a reserved system name.               *)
C13_ClearFrame ==
    [][tasks'[1].op = "clear"
       => \A n \in DOMAIN localStorage \cup DOMAIN localStorage' :
            IsPlainEntry(n)
            => /\ n \in DOMAIN localStorage /\ n \in DOMAIN localStorage'
               /\ localStorage'[n] = localStorage[n]]_vars

\* clear() has returned after it removed a salt, and a plain entry is there
C13_Witness ==
    /\ LastIs({"clear"})
    /\ Prev.op = "setItem" /\ Prev.ver > 1
    /\ HasItem(localStorage, PlainName("a"))
    /\ ~HasItem(localStorage, SaltName)

\* what a cleanExpired in slot 1 has counted and emitted so far
Cleaning(T) == T.op = "cleanExpired" /\ T.pc # "done"
CountedBy(T) ==
    IF T.op # "cleanExpired" THEN 0 ELSE IF T.pc = "done" THEN T.result.num ELSE T.count
ExpiredBy(T) == IF T.op # "cleanExpired" THEN 0 ELSE CountEvents(T.events, "expired")

\* the record is a wrapper whose expiry timestamp is before t
HasExpired(r, t) ==
    /\ Kind(r) = "ct"
    /\ Kind(r.ct.pt) = "json"
    /\ r.ct.pt.json.expiresAt # None
    /\ r.ct.pt.json.expiresAt[1] < t

(* C14: in every step of cleanExpired, from its call to its return, the      *)
(* entries deleted are as many as the count and the expired events grow by,  *)
(* each deleted entry has an expiry timestamp in the past, and every other   *)
(* entry is left as it was; so the number returned is the number of entries  *)
(* deleted and of expired events, and the entries without expiry or with a   *)
(* future expiry are still there, unchanged.                                 *)
C14_CleanExact ==
    [][(tasks'[1].op = "cleanExpired" /\ tasks'[1] # tasks[1])
       => LET before == IF Cleaning(tasks[1]) THEN tasks[1] ELSE IdleTask
              deleted == DOMAIN localStorage \ DOMAIN localStorage'
          IN  /\ DOMAIN localStorage' \subseteq DOMAIN localStorage
              /\ Cardinality(deleted) = CountedBy(tasks'[1]) - CountedBy(before)
              /\ Cardinality(deleted) = ExpiredBy(tasks'[1]) - ExpiredBy(before)
              /\ \A n \in deleted : HasExpired(localStorage[n], now)
              /\ \A n \in DOMAIN localStorage' : localStorage'[n] = localStorage[n]]_vars

\* cleanExpired has returned 1 and left an entry that has not expired
C14_Witness ==
    /\ LastIs({"cleanExpired"}) /\ Last.result = Num(1)
    /\ \E n \in DOMAIN localStorage :
          /\ Kind(localStorage[n]) = "ct"
          /\ ~HasExpired(localStorage[n], now)

(* C15: in the step in which a rotateKeys() completes, the persisted         *)
(* key-version counter is the counter the rotation started from plus 1,      *)
(* also when other operations run during the rotation.                       *)
C15_RotationBumpsOnce ==
    [][(tasks[1].pc # "done" /\ tasks'[1].pc = "done" /\ tasks'[1].op = "rotateKeys"
          /\ tasks'[1].result = Void)
       => /\ HasItem(localStorage', VersionName)
          /\ localStorage'[VersionName] = VersionStr(tasks'[1].ver + 1)]_vars

\* C16: over any sequence of setItem, getItem, removeItem, clear, cleanExpired,
\* rotateKeys, export and import, getKeyVersion() never decreases, the persisted
\* __key_version never decreases, and the two are equal whenever __key_version
\* is present.
C16_VersionMonotonic ==
    [][/\ keyVersion' >= keyVersion
       /\ HasItem(localStorage, VersionName) /\ HasItem(localStorage', VersionName)
            => localStorage'[VersionName].version >= localStorage[VersionName].version
       /\ HasItem(localStorage', VersionName)
            => localStorage'[VersionName] = VersionStr(keyVersion')]_vars

\* C16 witness: a rotation has raised the counter a second time and the
\* persisted counter is there
C16_Witness ==
    /\ Last.op = "rotateKeys" /\ Last.pc = "done"
    /\ keyVersion >= 3
    /\ HasItem(localStorage, VersionName)

\* the value a caller stored, read off the envelope setItem wrapped it in
Original(sv) == IF sv.compressed THEN sv.value.gz ELSE sv.value

\* C17: when a backup was taken with exportEncryptedData(), rotateKeys() then
\* ran (to completion or failing part-way) and importEncryptedData(backup)
\* completed, getItem(k) returns the original value for every logical key k
\* whose entry was in the backup.
C17_BackupRestores ==
    (LastIs({"getItem"}) /\ PrevIs({"importEncryptedData"}) /\ hist[2].op = "rotateKeys")
    => \A i \in 1..Len(Prev.value.backup.data) :
          LET e == Prev.value.backup.data[i]
          IN  e.name = encryptKey(PlainName(Last.key)) => Last.result = Original(e.value.json)

\* a call made and completed while the capability probe reports unavailable
FallbackCall ==
    /\ ~supported /\ supported' = supported
    /\ tasks'[1].pc = "done"
    /\ (tasks' # tasks \/ hist' # hist)

\* C18: while the crypto capability probe reports unavailable, setItem,
\* setItemWithExpiry, getItem, removeItem and hasItem never throw; setItem(k, v)
\* stores v verbatim under the plain name k and writes no __enc_ entry, salt or
\* version; getItem(k) returns whatever is stored under the plain name k.
C18_PlainFallback ==
    [][FallbackCall =>
        LET T == tasks'[1]
            k == PlainName(T.key)
        IN  /\ T.result # Throw
            /\ T.op \in {"setItem", "setItemWithExpiry"}
                 => localStorage' = Put(localStorage, k, T.value)
            /\ T.op = "getItem"
                 => T.result = GetItem(localStorage, k) /\ localStorage' = localStorage
            /\ T.op = "hasItem"
                 => T.result = Bool(HasItem(localStorage, k))]_vars

\* C18 witness: a value written through the fallback next to an encrypted
\* record of the same key, and read back through the fallback
C18_Witness ==
    /\ LastIs({"getItem"}) /\ ~Last.sup /\ ~supported
    /\ PrevIs({"setItem"}) /\ ~Prev.sup /\ Prev.key = Last.key
    /\ Last.result = Prev.value
    /\ HasItem(localStorage, encryptKey(PlainName(Last.key)))
    /\ HasItem(localStorage, SaltName)

\* getItem(k) completes in this step, with a record under the obfuscated name
\* of k that does not decrypt
ReadsTampered ==
    LET n == encryptKey(PlainName(tasks'[1].key))
    IN  /\ tasks[1].pc # "done" /\ tasks'[1].pc = "done" /\ tasks'[1].op = "getItem"
        /\ HasItem(localStorage, n)
        /\ localStorage[n] = Tampered(localStorage[n])

\* C19: if the record stored under the obfuscated name of k fails to decrypt,
\* getItem(k) does not throw and returns nothing derived from that record; it
\* emits an error event and returns the value stored under the plain name k,
\* or null when there is none.
C19_TamperedRead ==
    [][ReadsTampered =>
        LET T == tasks'[1]
        IN  /\ T.result # Throw
            /\ Emitted(T, "error")
            /\ T.result = GetItem(localStorage, PlainName(T.key))]_vars

\* C19 witness: a read of a tampered record has returned the value found
\* under the plain name
C19_Witness ==
    /\ LastIs({"getItem"}) /\ Emitted(Last, "error")
    /\ HasItem(localStorage, encryptKey(PlainName(Last.key)))
    /\ localStorage[encryptKey(PlainName(Last.key))].ct.salt = 0
    /\ HasItem(localStorage, PlainName(Last.key))
    /\ Last.result = localStorage[PlainName(Last.key)]

\* getItem has decrypted an entry that parses as an envelope, not expired,
\* whose checksum differs from the checksum of its payload
DecryptedMismatch ==
    LET d == tasks[1].buf
    IN  /\ tasks[1].pc = "get_parsed"
        /\ ParsesAsJson(d)
        /\ d.json.checksum # NoChecksum
        /\ d.json.checksum # Sha(d.json.value)
        /\ ~IsExpired(d.json, now)

\* C20: when an entry decrypts and parses as an envelope whose checksum
\* differs from the checksum recomputed over its payload, getItem emits one
\* error event for the key, still returns the entry's value, emits decrypted,
\* and does not delete the entry.
C20_ChecksumReported ==
    [][(DecryptedMismatch /\ tasks' # tasks) =>
        LET T == tasks'[1]
        IN  /\ T.pc = "done"
            /\ T.result = Original(tasks[1].buf.json)
            /\ CountEvents(T.events, "error") = 1
            /\ \A i \in 1..Len(T.events) :
                   T.events[i].type = "error" => T.events[i].key = PlainName(T.key)
            /\ Emitted(T, "decrypted")
            /\ localStorage' = localStorage]_vars

IntegrityOps == {"verifyIntegrity", "getIntegrityInfo"}

\* C21: in every reachable state, verifyIntegrity(k) and getIntegrityInfo(k)
\* leave the whole store unchanged (no entry, salt or key version written or
\* removed) and emit no event: no step of such a call changes localStorage,
\* and the call ends with no event emitted.
C21_IntegrityReadOnly ==
    [][(tasks'[1] # tasks[1] /\ tasks'[1].op \in IntegrityOps)
        => /\ localStorage' = localStorage
           /\ tasks'[1].events = <<>>]_vars

\* the entry carries no checksum: a legacy value with no envelope, or an
\* envelope without checksum
NoChecksumIn(text) ==
    ~ParsesAsJson(text) \/ text.json.checksum = NoChecksum

ReportsValid(T) ==
    IF T.op = "verifyIntegrity"
    THEN T.result = Bool(TRUE)
    ELSE Kind(T.result) = "info" /\ T.result.info.valid

\* C22: for every entry under the obfuscated name of k that decrypts and
\* carries no checksum (an envelope without checksum or a legacy value with no
\* envelope), verifyIntegrity(k) returns true and getIntegrityInfo(k) reports
\* valid = true; for an entry written by setItem and not modified since, both
\* report valid.
C22_NoChecksumValid ==
    LastIs(IntegrityOps) =>
        LET r == GetItem(localStorage, encryptKey(PlainName(Last.key)))
        IN  /\ (Kind(r) = "ct" /\ r.ct.salt = key /\ NoChecksumIn(r.ct.pt)) => ReportsValid(Last)
            /\ (PrevIs({"setItem"}) /\ Prev.key = Last.key /\ Prev.result = Void)
                 => ReportsValid(Last)

\* how often an emit has invoked a listener through on (kind "on") or once
Invocations(id, l, kind) ==
    Cardinality({j \in 1..Len(emitter.calls) :
                    emitter.calls[j] = [emit |-> id, l |-> l, kind |-> kind]})

\* C23: when emit(e, data) is called and one subscriber of e throws, every
\* other subscriber of e (registered with on or once) is still invoked exactly
\* once for that emit, and emit returns normally without propagating the
\* exception to its caller.
C23_ListenerIsolation ==
    /\ emitter.failed = {}
    /\ \A i \in 1..Len(emitter.subs) :
          LET sb == emitter.subs[i]
          IN  (sb.id \in emitter.returned /\ \E c \in emitter.threw : c.emit = sb.id)
              => /\ \A l \in sb.on : Invocations(sb.id, l, "on") = 1
                 /\ \A l \in sb.once : Invocations(sb.id, l, "once") = 1

\* C23 witness: an emit has returned in which the first listener threw and a
\* listener registered with on and one registered with once ran after it
C23_Witness ==
    /\ emitter.stack = <<>>
    /\ Len(emitter.calls) >= 3
    /\ [emit |-> emitter.calls[1].emit, l |-> emitter.calls[1].l, kind |-> "on"] \in emitter.threw
    /\ emitter.calls[1].emit \in emitter.returned
    /\ \E j \in 2..Len(emitter.calls) : emitter.calls[j].kind = "on"
    /\ \E j \in 2..Len(emitter.calls) : emitter.calls[j].kind = "once"

\* C24: a listener registered with once(e, l) is invoked for the first emit of
\* e after its registration and for no later emit of e, over any sequence of
\* emits, emits issued from inside a listener while the first emit is still
\* running included: it is never invoked twice, and once an emit has returned
\* it is not waiting any more.
C24_OnceOnlyOnce ==
    \A l \in Listeners :
        /\ emitter.fired[l] <= 1
        /\ (emitter.stack = <<>> /\ l \in Range(OnceSet(emitter)))
             => emitter.emits = emitter.regAt[l]

\* C25: SecureStorage.getInstance(config) returns a storage whose effective
\* configuration, as getDebugInfo().config reports it, holds the values
\* supplied in config, also when getInstance() has been called before without
\* a configuration.
C25_ConfigAccepted ==
    LastIs({"getInstance"}) =>
        /\ Last.value.iterations # None
             => Last.result.config.iterations = Last.value.iterations[1]
        /\ Last.value.compression # None
             => Last.result.config.compression = Last.value.compression[1]

\* C26: for every key in keys that holds an unencrypted value v under its
\* plain name, after migrateExistingData(keys) completes getItem(key) returns
\* v, and whenever the plain entry has been removed an encrypted entry for the
\* key exists under its obfuscated name, also when the encryption of an item
\* fails during the run.
C26_MigrationKeeps ==
    /\ LastIs({"migrateExistingData"}) =>
          \A k \in Range(Last.value.keys) \cap DOMAIN PlainData :
              ~HasItem(localStorage, PlainName(k)) => HasItem(localStorage, encryptKey(PlainName(k)))
    /\ (LastIs({"getItem"}) /\ PrevIs({"migrateExistingData"})
          /\ Last.key \in Range(Prev.value.keys))
       => Last.result = PlainData[Last.key]

\* C27: namespace(n).keys() returns exactly the prefix-stripped logical keys
\* of the entries currently stored through that handle, with crypto available
\* as well as unavailable: a key set just before through the handle is in the
\* result, a key removed just before is not, and every name in the result is
\* the key of a stored entry of the namespace and appears once.
C27_NamespaceKeys ==
    LastIs({"ns.keys"}) =>
        LET list == Last.result.list
            stored(k) == \/ HasItem(localStorage, PlainName(prefix(Last.ns) \o k))
                         \/ HasItem(localStorage, encryptKey(PlainName(prefix(Last.ns) \o k)))
        IN  /\ (PrevIs({"ns.setItem"}) /\ Prev.ns = Last.ns /\ Prev.sup = Last.sup)
                 => Prev.key \in Range(list)
            /\ (PrevIs({"ns.removeItem"}) /\ Prev.ns = Last.ns /\ Prev.sup = Last.sup)
                 => Prev.key \notin Range(list)
            /\ \A i \in 1..Len(list) : stored(list[i])
            /\ \A i, j \in 1..Len(list) : list[i] = list[j] => i = j

\* C29: the backup exportEncryptedData() returns holds one pair, obfuscated
\* name and decrypted text, for every record that is in localStorage during
\* the whole export, and its metadata.itemCount is the number of its pairs,
\* also when another caller removes or stores an item while the export is
\* suspended at a decrypt.  The records the other caller never names are in
\* localStorage from the load of the page on.
C29_ExportSnapshot ==
    LastIs({"exportEncryptedData"}) =>
        LET backup == Last.result.backup
        IN  /\ \A k \in DOMAIN SnapshotData \ {tasks[2].key} :
                  \E i \in 1..Len(backup.data) :
                      /\ backup.data[i].name = encryptKey(PlainName(k))
                      /\ backup.data[i].value = Json(StoredValue(SnapshotData[k], 1, FALSE, None,
                                                                 Sha(SnapshotData[k])))
            /\ backup.itemCount = Len(backup.data)

\* C30: once a setItem(k, v) has completed, through the encrypted path or
\* through the plain fallback taken after an encryption failure or without
\* crypto, the next getItem(k) returns v, and not an older value left under
\* the obfuscated name of k.  Stated for a read made with the crypto
\* capability as it was at the write.
C30_ReadYourWrites ==
    (LastIs({"getItem"}) /\ PrevIs({"setItem"}) /\ Prev.key = Last.key /\ Prev.result = Void
        /\ Prev.sup = Last.sup)
        => Last.result = Prev.value

\* C31: when the encryption of one backup entry fails during the re-encrypt
\* loop of rotateKeys(), the rotation still writes every other entry of the
\* backup under the new key: at the end of the step that handles the failure
\* each other entry of the backup is stored encrypted under the active key.
C31_RotationCompletes ==
    [][rotateKeys_throw(1) =>
          \A i \in (1..Len(tasks[1].data)) \ {tasks[1].idx} :
              \E n \in DOMAIN localStorage' :
                  localStorage'[n] = Cipher(key, tasks[1].data[i].value)]_vars

\* C32: an EncryptionHelper without a cached key, on a page where a salt is
\* persisted, re-derives its key from that salt on first use: the step leaves
\* localStorage (the salt and the key version with it) and the key-version
\* counter as they are, and the key it sets is the one of the persisted salt,
\* so that a read after the restart returns what was stored before it; a new
\* salt is generated only when none is persisted.
C32_RestartDecrypts ==
    /\ [][initializeFromStored(1) =>
              /\ HasItem(localStorage, SaltName)
              /\ localStorage' = localStorage
              /\ keyVersion' = keyVersion
              /\ key' = StoredSalt(localStorage')]_vars
    /\ [][initialize(1) => ~HasItem(localStorage, SaltName)]_vars
    /\ []((LastIs({"getItem"}) /\ PrevIs({"setItem"}) /\ Prev.key = Last.key)
              => Last.result = Prev.value)

\* a read that follows a completed encrypted write has just re-derived the
\* key from the persisted salt: the page was loaded again between the two
C32_Witness ==
    /\ Last.op = "getItem" /\ Last.pc = "crypt_go"
    /\ PrevIs({"setItem"}) /\ Prev.key = Last.ckey
    /\ HasItem(localStorage, encryptKey(PlainName(Last.ckey)))
    /\ key = StoredSalt(localStorage)

\* C33: the record a completed setItemWithExpiry(k, v, opts) stores carries
\* expiresAt = now + expiresIn whenever expiresIn is given, also next to an
\* expiresAt and also when it is 0; the absolute timestamp when only
\* expiresAt is given; and no expiry when neither is given.
C33_ExpiryPrecedence ==
    (LastIs({"setItemWithExpiry"}) /\ Last.result = Void)
    => LET record == localStorage[encryptKey(PlainName(Last.key))].ct.pt.json
       IN  record.expiresAt = IF Last.opts.expiresIn # None
                              THEN Some(Last.at + Last.opts.expiresIn[1])
                              ELSE Last.opts.expiresAt

\* C34: a cleanExpired pass that finds an entry of its key scan gone, removed
\* by clear(), removeItem or rotateKeys() while the pass was suspended, skips
\* it: in the step that resumes the pass after a decrypt, when the entry under
\* check is no longer in localStorage, the pass emits no event for it, does
\* not count it, and does not reject.
C34_VanishedSkipped ==
    [][(cleanExpired_check(1) /\ ~HasItem(localStorage, tasks[1].list[tasks[1].idx]))
          => /\ tasks'[1].events = tasks[1].events
             /\ IF tasks'[1].pc = "done"
                THEN tasks'[1].result = Num(tasks[1].count)
                ELSE tasks'[1].count = tasks[1].count]_vars

\* C35: in every state every record under an obfuscated name in localStorage
\* was encrypted under the key of the salt that is persisted at that moment,
\* so that the active key and a restarted page can decrypt it: no operation
\* in flight across a clear or a rotation leaves a record of an older key.
C35_StoreKeyConsistent ==
    \A n \in DOMAIN localStorage :
        (IsEncName(n) /\ Kind(localStorage[n]) = "ct")
            => localStorage[n].ct.salt = StoredSalt(localStorage)

\* C36: when setItem(k, v) is called and completes while a getItem(k) or
\* hasItem(k) that started earlier is in flight, then once both have
\* completed the entry of k holds v: the expiry deletion inside the read does
\* not touch the record written meanwhile.
C36_ReadKeepsWrite ==
    (tasks[1].pc = "done" /\ tasks[2].pc = "done" /\ tasks[2].op = "setItem"
        /\ tasks[2].result = Void)
    => LET n == encryptKey(PlainName(tasks[2].key))
       IN  /\ HasItem(localStorage, n)
           /\ Kind(localStorage[n]) = "ct"
           /\ localStorage[n].ct.pt.json.value = tasks[2].value

\* C37: cleanExpired removes an entry only if the record stored under that
\* name at that moment is expired: a record that setItem or setItemWithExpiry
\* wrote while the pass was suspended at the decrypt of the old one stays.
C37_CleanKeepsLive ==
    [][cleanExpired_check(1) =>
          \A n \in DOMAIN localStorage \ DOMAIN localStorage' :
              /\ Kind(localStorage[n]) = "ct"
              /\ IsExpired(localStorage[n].ct.pt.json, now)]_vars

\* C38: whenever the storage that SecureStorage.getInstance() returns has
\* autoCleanup enabled, exactly one cleanup timer is scheduled for it, also
\* when destroy() has been called before.
C38_CleanupArmed ==
    (LastIs({"getInstance"}) /\ Last.result.config.autoCleanup)
        => instance.cleanupInterval = 1

====
